---- MODULE Spec2Model ----
(***************************************************************************)
(* Sword Merge Game: the inventory grid (InventoryManager), the merge      *)
(* rule (MergeSystem), the enhancement rule (EnhancementSystem), the shop, *)
(* the quests and the controller (GameController) that drives them.        *)
(***************************************************************************)
EXTENDS Integers, Sequences, FiniteSets, TLC

VARIABLES
    slots,      \* InventoryManager.slots: 25 records {position, sword}
    gameState,  \* GameController.gameState: version, player.gold and stats
    quests,     \* QuestSystem.activeQuests
    achievements, \* AchievementSystem.achievements
    storage,    \* localStorage[STORAGE_KEY]: absent, unparsable, or a stored state
    quotaExceeded, \* whether localStorage.setItem throws (the quota is used up)
    enhanceCalls, \* how many enhancement attempts have been rolled
    gridCalls,  \* how many calls have changed the bare grid
    nextId,     \* the next identifier generateUUID hands out
    phase,      \* "grid", "merge", "enhance" (a system on its own), "boot", "run"
    last,       \* the call that has just returned: its name, arguments and result
    pre         \* the state that call started in

vars == <<slots, gameState, quests, achievements, storage, quotaExceeded,
          enhanceCalls, gridCalls, nextId, phase, last, pre>>

-----------------------------------------------------------------------------
(* Bounds of the model *)

\* createSword is called at most this many times in one run
MaxNewSwords == 1
\* handleEnhancement is called on a sword at most this many times in one run
MaxEnhancements == 1
\* the grid alone is changed by at most this many calls in one run
MaxGridCalls == 3
\* merge alone is tried on swords of levels 1 to this
MaxMergeLevel == 5
\* the enhancement rule alone is tried on enhancements 0 to this
MaxEnhancementLevel == 7
\* the highest level a gold value is computed for
MaxValueLevel == 10

-----------------------------------------------------------------------------
(* Values *)

\* the grid is 5x5
CAPACITY == 25

\* JavaScript's null, for a sword
NULL == [id |-> 0, level |-> 0, enhancement |-> 0, goldValue |-> 0]

\* JavaScript's null, for a position (addSword's default, findEmptySlot's "none")
NullPosition == -1000

Indices == 0 .. (CAPACITY - 1)

RECURSIVE Pow2(_)
Pow2(n) == IF n <= 0 THEN 1 ELSE 2 * Pow2(n - 1)

\* a value that counts only every second enhancement: 1 + floor(enhancement / 2)
calculateGoldValueWholeSteps(level, enhancement) ==
    Pow2(level - 1) * 10 * (1 + enhancement \div 2)

\* floor((2^(level-1) * 10) * (1 + enhancement * 0.5))
calculateGoldValue(level, enhancement) ==
    IF level >= 1
    THEN (Pow2(level - 1) * 10 * (2 + enhancement)) \div 2
    ELSE (10 * (2 + enhancement)) \div (2 * Pow2(1 - level))

\* createSword with the identifier generateUUID returned
createSword(id, level, enhancement) ==
    [id |-> id, level |-> level, enhancement |-> enhancement,
     goldValue |-> calculateGoldValue(level, enhancement)]

\* new InventoryManager().slots
EmptySlots == [i \in Indices |-> [position |-> i, sword |-> NULL]]

-----------------------------------------------------------------------------
(* InventoryManager: each method as a function of the slots, giving the     *)
(* returned value and the slots afterwards                                  *)

InRange(position) == position >= 0 /\ position < 25

getSword(s, position) ==
    IF ~InRange(position) THEN NULL ELSE s[position].sword

findEmptySlot(s) ==
    IF \E i \in DOMAIN s : s[i].sword = NULL
    THEN CHOOSE i \in DOMAIN s :
            /\ s[i].sword = NULL
            /\ \A j \in DOMAIN s : s[j].sword = NULL => i <= j
    ELSE NullPosition

isFull(s) == findEmptySlot(s) = NullPosition

\* addSword without the check that the target slot is empty
addSwordOverwrites(s, sword, position) ==
    LET targetPosition == IF position # NullPosition THEN position ELSE findEmptySlot(s)
    IN  IF sword = NULL \/ sword.level < 1 \/ sword.enhancement < 0
        THEN [ret |-> FALSE, slots |-> s]
        ELSE IF targetPosition = NullPosition
        THEN [ret |-> FALSE, slots |-> s]
        ELSE IF targetPosition < 0 \/ targetPosition >= 25
        THEN [ret |-> FALSE, slots |-> s]
        ELSE [ret |-> TRUE, slots |-> [s EXCEPT ![targetPosition].sword = sword]]

addSword(s, sword, position) ==
    LET targetPosition == IF position # NullPosition THEN position ELSE findEmptySlot(s)
    IN  IF sword = NULL \/ sword.level < 1 \/ sword.enhancement < 0
        THEN [ret |-> FALSE, slots |-> s]
        ELSE IF targetPosition = NullPosition
        THEN [ret |-> FALSE, slots |-> s]
        ELSE IF targetPosition < 0 \/ targetPosition >= 25
        THEN [ret |-> FALSE, slots |-> s]
        ELSE IF s[targetPosition].sword # NULL
        THEN [ret |-> FALSE, slots |-> s]
        ELSE [ret |-> TRUE, slots |-> [s EXCEPT ![targetPosition].sword = sword]]

\* removeSword that returns the sword and leaves it in the slot
removeSwordLeavesSlot(s, position) ==
    IF position < 0 \/ position >= 25
    THEN [ret |-> NULL, slots |-> s]
    ELSE [ret |-> s[position].sword, slots |-> s]

removeSword(s, position) ==
    IF position < 0 \/ position >= 25
    THEN [ret |-> NULL, slots |-> s]
    ELSE [ret |-> s[position].sword, slots |-> [s EXCEPT ![position].sword = NULL]]

\* moveSword that leaves the sword in the slot it came from
moveSwordCopies(s, fromPos, toPos) ==
    IF fromPos < 0 \/ fromPos >= 25 \/ toPos < 0 \/ toPos >= 25
    THEN [ret |-> FALSE, slots |-> s]
    ELSE IF s[fromPos].sword = NULL
    THEN [ret |-> FALSE, slots |-> s]
    ELSE IF s[toPos].sword # NULL
    THEN [ret |-> FALSE, slots |-> s]
    ELSE [ret |-> TRUE, slots |-> [s EXCEPT ![toPos].sword = s[fromPos].sword]]

\* moveSword without the check that the target slot is empty
moveSwordOntoOccupied(s, fromPos, toPos) ==
    IF fromPos < 0 \/ fromPos >= 25 \/ toPos < 0 \/ toPos >= 25
    THEN [ret |-> FALSE, slots |-> s]
    ELSE IF s[fromPos].sword = NULL
    THEN [ret |-> FALSE, slots |-> s]
    ELSE [ret |-> TRUE,
          slots |-> [s EXCEPT ![toPos].sword = s[fromPos].sword,
                              ![fromPos].sword = NULL]]

moveSword(s, fromPos, toPos) ==
    IF fromPos < 0 \/ fromPos >= 25 \/ toPos < 0 \/ toPos >= 25
    THEN [ret |-> FALSE, slots |-> s]
    ELSE IF s[fromPos].sword = NULL
    THEN [ret |-> FALSE, slots |-> s]
    ELSE IF s[toPos].sword # NULL
    THEN [ret |-> FALSE, slots |-> s]
    ELSE [ret |-> TRUE,
          slots |-> [s EXCEPT ![toPos].sword = s[fromPos].sword,
                              ![fromPos].sword = NULL]]

\* swapSwords without the check that the two positions differ
swapSwordsWithItself(s, pos1, pos2) ==
    IF pos1 < 0 \/ pos1 >= 25 \/ pos2 < 0 \/ pos2 >= 25
    THEN [ret |-> FALSE, slots |-> s]
    ELSE IF s[pos1].sword = NULL \/ s[pos2].sword = NULL
    THEN [ret |-> FALSE, slots |-> s]
    ELSE [ret |-> TRUE,
          slots |-> [s EXCEPT ![pos1].sword = s[pos2].sword,
                              ![pos2].sword = s[pos1].sword]]

swapSwords(s, pos1, pos2) ==
    IF pos1 < 0 \/ pos1 >= 25 \/ pos2 < 0 \/ pos2 >= 25
    THEN [ret |-> FALSE, slots |-> s]
    ELSE IF pos1 = pos2
    THEN [ret |-> FALSE, slots |-> s]
    ELSE IF s[pos1].sword = NULL \/ s[pos2].sword = NULL
    THEN [ret |-> FALSE, slots |-> s]
    ELSE [ret |-> TRUE,
          slots |-> [s EXCEPT ![pos1].sword = s[pos2].sword,
                              ![pos2].sword = s[pos1].sword]]

\* the slots are a JavaScript array: indices 0 .. length-1
Len0(s) == Cardinality(DOMAIN s)

\* slots.map(slot => slot.sword).filter(sword => sword !== null), from index i on
RECURSIVE AllFrom(_, _)
AllFrom(s, i) ==
    IF i >= Len0(s) THEN <<>>
    ELSE IF s[i].sword = NULL THEN AllFrom(s, i + 1)
    ELSE <<s[i].sword>> \o AllFrom(s, i + 1)

getAllSwords(s) == AllFrom(s, 0)

RECURSIVE SumGold(_)
SumGold(seq) == IF seq = <<>> THEN 0 ELSE Head(seq).goldValue + SumGold(Tail(seq))

getTotalValue(s) == SumGold(getAllSwords(s))

countSwords(s) == Len(getAllSwords(s))

\* an insertion that puts sword x before the sorted swords of its own level
RECURSIVE InsertByLevelBeforeEquals(_, _)
InsertByLevelBeforeEquals(sorted, x) ==
    IF sorted = <<>> THEN <<x>>
    ELSE IF Head(sorted).level > x.level
         THEN <<Head(sorted)>> \o InsertByLevelBeforeEquals(Tail(sorted), x)
         ELSE <<x>> \o sorted

\* where Array.prototype.sort((a, b) => b.level - a.level), a stable sort, puts
\* sword x among the already sorted swords that came before it
RECURSIVE InsertByLevel(_, _)
InsertByLevel(sorted, x) ==
    IF sorted = <<>> THEN <<x>>
    ELSE IF Head(sorted).level >= x.level
         THEN <<Head(sorted)>> \o InsertByLevel(Tail(sorted), x)
         ELSE <<x>> \o sorted

RECURSIVE SortDescending(_, _)
SortDescending(sorted, rest) ==
    IF rest = <<>> THEN sorted
    ELSE SortDescending(InsertByLevel(sorted, Head(rest)), Tail(rest))

sortByLevel(s) ==
    LET swords == SortDescending(<<>>, getAllSwords(s))
    IN  [i \in DOMAIN s |->
            [s[i] EXCEPT !.sword = IF i < Len(swords) THEN swords[i + 1] ELSE NULL]]

clear(s) == [i \in DOMAIN s |-> [s[i] EXCEPT !.sword = NULL]]

-----------------------------------------------------------------------------
(* MergeSystem *)

\* canMerge without the comparison of the levels
canMergeIgnoresLevel(sword1, sword2) ==
    IF sword1 = NULL \/ sword2 = NULL
    THEN FALSE
    ELSE TRUE

canMerge(sword1, sword2) ==
    IF sword1 = NULL \/ sword2 = NULL
    THEN FALSE
    ELSE sword1.level = sword2.level

\* merge that carries the first sword's enhancement over to the new sword
mergeKeepsEnhancement(id, sword1, sword2) ==
    IF ~canMerge(sword1, sword2)
    THEN [threw |-> TRUE, ret |-> NULL, sword1 |-> sword1, sword2 |-> sword2]
    ELSE [threw |-> FALSE, ret |-> createSword(id, sword1.level + 1, sword1.enhancement),
          sword1 |-> sword1, sword2 |-> sword2]

\* merge(sword1, sword2), id being what generateUUID returns inside createSword:
\* whether it threw, the sword it returned, and the two arguments afterwards
merge(id, sword1, sword2) ==
    IF ~canMerge(sword1, sword2)
    THEN [threw |-> TRUE, ret |-> NULL, sword1 |-> sword1, sword2 |-> sword2]
    ELSE [threw |-> FALSE, ret |-> createSword(id, sword1.level + 1, 0),
          sword1 |-> sword1, sword2 |-> sword2]

-----------------------------------------------------------------------------
(* EnhancementSystem. Rates are in tenths (9 is 0.9); a roll r stands for the *)
(* values of Math.random() in [r/10, (r+1)/10)                                *)

Max(a, b) == IF a >= b THEN a ELSE b
Min(a, b) == IF a <= b THEN a ELSE b

\* getEnhancementConfig without the cap of 0.5 on the destroy rate
getEnhancementConfigUncapped(enhancement) ==
    LET successRate == Max(3, 9 - enhancement)
        destroyRate == enhancement
    IN  [successRate |-> successRate,
         maintainRate |-> 10 - successRate - destroyRate,
         destroyRate |-> destroyRate]

getEnhancementConfig(enhancement) ==
    LET successRate == Max(3, 9 - enhancement)
        destroyRate == Min(5, enhancement)
    IN  [successRate |-> successRate,
         maintainRate |-> 10 - successRate - destroyRate,
         destroyRate |-> destroyRate]

\* rollEnhancement that tries the destroy range before the maintain range
rollEnhancementDestroyFirst(config, roll) ==
    IF roll < config.successRate THEN "SUCCESS"
    ELSE IF roll < config.successRate + config.destroyRate THEN "DESTROY"
    ELSE "MAINTAIN"

rollEnhancement(config, roll) ==
    IF roll < config.successRate THEN "SUCCESS"
    ELSE IF roll < config.successRate + config.maintainRate THEN "MAINTAIN"
    ELSE "DESTROY"

\* enhance(sword) returns the outcome only: it assigns nothing to the sword
\* enhance that rolls with the rates of the next enhancement level
enhanceAtNextLevel(sword, roll) ==
    rollEnhancement(getEnhancementConfig(sword.enhancement + 1), roll)

enhance(sword, roll) == rollEnhancement(getEnhancementConfig(sword.enhancement), roll)

-----------------------------------------------------------------------------
(* QuestSystem *)

Templates == <<
    [type |-> "merge",    target |-> 10, reward |-> 100],
    [type |-> "merge",    target |-> 25, reward |-> 250],
    [type |-> "enhance",  target |-> 5,  reward |-> 150],
    [type |-> "enhance",  target |-> 10, reward |-> 300],
    [type |-> "sell",     target |-> 20, reward |-> 80],
    [type |-> "sell",     target |-> 50, reward |-> 200],
    [type |-> "purchase", target |-> 15, reward |-> 120],
    [type |-> "purchase", target |-> 30, reward |-> 280] >>

\* generateDailyQuests, selection being the three templates the shuffle picked;
\* quest identifiers are fresh UUIDs, here the quest's place in the list
generateDailyQuests(selection) ==
    [k \in 1 .. Len(selection) |->
        [id |-> k,
         type |-> Templates[selection[k]].type,
         target |-> Templates[selection[k]].target,
         current |-> 0,
         reward |-> Templates[selection[k]].reward,
         completed |-> FALSE,
         claimed |-> FALSE]]

isObjectiveMet(quest) == quest.current >= quest.target

\* updateProgress that advances the quests of every type
updateProgressEveryType(qs, type, amount) ==
    [k \in DOMAIN qs |->
        IF ~qs[k].claimed
        THEN LET q == [qs[k] EXCEPT !.current = @ + amount]
             IN  IF isObjectiveMet(q) THEN [q EXCEPT !.completed = TRUE] ELSE q
        ELSE qs[k]]

updateProgress(qs, type, amount) ==
    [k \in DOMAIN qs |->
        IF qs[k].type = type /\ ~qs[k].claimed
        THEN LET q == [qs[k] EXCEPT !.current = @ + amount]
             IN  IF isObjectiveMet(q) THEN [q EXCEPT !.completed = TRUE] ELSE q
        ELSE qs[k]]

\* claimReward without the check that the quest is not claimed yet
claimRewardAgain(qs, questId) ==
    IF ~(\E k \in DOMAIN qs : qs[k].id = questId)
    THEN [ret |-> 0, quests |-> qs]
    ELSE LET k == CHOOSE j \in DOMAIN qs :
                    qs[j].id = questId /\ \A i \in DOMAIN qs : qs[i].id = questId => j <= i
         IN  IF ~qs[k].completed THEN [ret |-> 0, quests |-> qs]
             ELSE [ret |-> qs[k].reward, quests |-> [qs EXCEPT ![k].claimed = TRUE]]

\* claimReward: the reward returned and the quests afterwards
claimReward(qs, questId) ==
    IF ~(\E k \in DOMAIN qs : qs[k].id = questId)
    THEN [ret |-> 0, quests |-> qs]
    ELSE LET k == CHOOSE j \in DOMAIN qs :
                    qs[j].id = questId /\ \A i \in DOMAIN qs : qs[i].id = questId => j <= i
         IN  IF qs[k].claimed THEN [ret |-> 0, quests |-> qs]
             ELSE IF ~qs[k].completed THEN [ret |-> 0, quests |-> qs]
             ELSE [ret |-> qs[k].reward, quests |-> [qs EXCEPT ![k].claimed = TRUE]]

-----------------------------------------------------------------------------
(* AchievementSystem *)

initializeAchievements == <<
    [id |-> "first_merge",      type |-> "total_merges", threshold |-> 1,
     current |-> 0, unlocked |-> FALSE],
    [id |-> "merge_master",     type |-> "total_merges", threshold |-> 100,
     current |-> 0, unlocked |-> FALSE],
    [id |-> "level_10",         type |-> "max_level",    threshold |-> 10,
     current |-> 0, unlocked |-> FALSE],
    [id |-> "gold_millionaire", type |-> "total_gold",   threshold |-> 1000000,
     current |-> 0, unlocked |-> FALSE] >>

StatFor(st, type) ==
    CASE type = "total_merges" -> st.totalMerges
      [] type = "max_level" -> st.maxLevel
      [] type = "total_gold" -> st.totalGoldEarned
      [] type = "total_enhancements" -> st.totalEnhancements

\* checkAchievements(stats): the ids of the achievements it returns as newly
\* unlocked, in the order of the list
RECURSIVE newlyUnlockedFrom(_, _, _)
newlyUnlockedFrom(as, st, k) ==
    IF k > Len(as) THEN <<>>
    ELSE IF ~as[k].unlocked /\ StatFor(st, as[k].type) >= as[k].threshold
         THEN <<as[k].id>> \o newlyUnlockedFrom(as, st, k + 1)
         ELSE newlyUnlockedFrom(as, st, k + 1)

newlyUnlocked(as, st) == newlyUnlockedFrom(as, st, 1)

\* checkAchievements(stats): the achievements afterwards
\* checkAchievements that goes on recording the progress of unlocked achievements
checkAchievementsTracksUnlocked(as, st) ==
    [k \in DOMAIN as |->
        LET a == [as[k] EXCEPT !.current = StatFor(st, as[k].type)]
        IN  IF a.unlocked \/ a.current >= a.threshold
            THEN [a EXCEPT !.unlocked = TRUE] ELSE a]

checkAchievements(as, st) ==
    [k \in DOMAIN as |->
        IF as[k].unlocked THEN as[k]
        ELSE LET a == [as[k] EXCEPT !.current = StatFor(st, as[k].type)]
             IN  IF a.current >= a.threshold THEN [a EXCEPT !.unlocked = TRUE] ELSE a]

-----------------------------------------------------------------------------
(* StorageManager. A stored state is the value JSON.parse gives: every       *)
(* scalar carries its JavaScript type, so that typeof can be asked of it     *)

JsNumber(n) == [type |-> "number", num |-> n, str |-> ""]
JsString(s) == [type |-> "string", num |-> 0, str |-> s]
JsUndefined == [type |-> "undefined", num |-> 0, str |-> ""]
\* the string form of the identifier generateUUID returned as id
JsUUID(id) == [type |-> "string", num |-> id, str |-> "uuid"]

CURRENT_VERSION == "1.0.0"

StoredNullSword ==
    [type |-> "null", id |-> JsUndefined, level |-> JsUndefined,
     enhancement |-> JsUndefined, goldValue |-> JsUndefined]

\* a serialization that leaves out the id of a sword
StoredSwordWithoutId(sword) ==
    IF sword = NULL THEN StoredNullSword
    ELSE [type |-> "object", id |-> JsUndefined, level |-> JsNumber(sword.level),
          enhancement |-> JsNumber(sword.enhancement),
          goldValue |-> JsNumber(sword.goldValue)]

StoredSword(sword) ==
    IF sword = NULL THEN StoredNullSword
    ELSE [type |-> "object", id |-> JsUUID(sword.id), level |-> JsNumber(sword.level),
          enhancement |-> JsNumber(sword.enhancement),
          goldValue |-> JsNumber(sword.goldValue)]

StatNames == {"totalMerges", "totalEnhancements", "totalPurchases",
              "totalSales", "maxLevel", "totalGoldEarned"}

\* JSON.parse(JSON.stringify(state)) of the state the controller saves
serialize(s, gs, qs, as) ==
    [type |-> "object",
     version |-> JsString(gs.version),
     player |-> [type |-> "object", gold |-> JsNumber(gs.gold)],
     inventory |-> [type |-> "array",
                    items |-> [i \in DOMAIN s |->
                                [type |-> "object",
                                 position |-> JsNumber(s[i].position),
                                 sword |-> StoredSword(s[i].sword)]]],
     quests |-> [type |-> "array", items |-> qs],
     achievements |-> [type |-> "array", items |-> as],
     stats |-> [type |-> "object",
                fields |-> [n \in StatNames |-> JsNumber(gs.stats[n])]]]

\* validSlot without the check of the position
validSlotAnyPosition(slot) ==
    IF slot.type # "object" THEN FALSE
    ELSE IF slot.sword.type # "null"
         THEN IF slot.sword.type # "object" THEN FALSE
              ELSE IF \/ slot.sword.id.type # "string"
                      \/ slot.sword.level.type # "number"
                      \/ slot.sword.enhancement.type # "number"
                      \/ slot.sword.goldValue.type # "number"
                   THEN FALSE
                   ELSE TRUE
         ELSE TRUE

validSlot(slot) ==
    IF slot.type # "object" THEN FALSE
    ELSE IF slot.position.type # "number" THEN FALSE
    ELSE IF slot.sword.type # "null"
         THEN IF slot.sword.type # "object" THEN FALSE
              ELSE IF \/ slot.sword.id.type # "string"
                      \/ slot.sword.level.type # "number"
                      \/ slot.sword.enhancement.type # "number"
                      \/ slot.sword.goldValue.type # "number"
                   THEN FALSE
                   ELSE TRUE
         ELSE TRUE

\* validateState without the check that the inventory has 25 entries
validateStateAnyLength(state) ==
    IF state.type # "object" THEN FALSE
    ELSE IF state.version.type # "string" THEN FALSE
    ELSE IF state.player.type # "object" THEN FALSE
    ELSE IF state.player.gold.type # "number" THEN FALSE
    ELSE IF state.inventory.type # "array" THEN FALSE
    ELSE IF \E i \in DOMAIN state.inventory.items :
                ~validSlot(state.inventory.items[i]) THEN FALSE
    ELSE IF state.quests.type # "array" THEN FALSE
    ELSE IF state.achievements.type # "array" THEN FALSE
    ELSE IF state.stats.type # "object" THEN FALSE
    ELSE IF \E n \in StatNames : state.stats.fields[n].type # "number" THEN FALSE
    ELSE TRUE

validateState(state) ==
    IF state.type # "object" THEN FALSE
    ELSE IF state.version.type # "string" THEN FALSE
    ELSE IF state.player.type # "object" THEN FALSE
    ELSE IF state.player.gold.type # "number" THEN FALSE
    ELSE IF state.inventory.type # "array" THEN FALSE
    ELSE IF Len0(state.inventory.items) # 25 THEN FALSE
    ELSE IF \E i \in DOMAIN state.inventory.items :
                ~validSlot(state.inventory.items[i]) THEN FALSE
    ELSE IF state.quests.type # "array" THEN FALSE
    ELSE IF state.achievements.type # "array" THEN FALSE
    ELSE IF state.stats.type # "object" THEN FALSE
    ELSE IF \E n \in StatNames : state.stats.fields[n].type # "number" THEN FALSE
    ELSE TRUE

\* the object the running game holds once a stored state is accepted
LoadedSword(sword) ==
    IF sword.type = "null" THEN NULL
    ELSE [id |-> sword.id.num, level |-> sword.level.num,
          enhancement |-> sword.enhancement.num, goldValue |-> sword.goldValue.num]

LoadedState(state) ==
    [version |-> state.version.str,
     gold |-> state.player.gold.num,
     inventory |-> [i \in DOMAIN state.inventory.items |->
                       [position |-> state.inventory.items[i].position.num,
                        sword |-> LoadedSword(state.inventory.items[i].sword)]],
     quests |-> state.quests.items,
     achievements |-> state.achievements.items,
     stats |-> [n \in StatNames |-> state.stats.fields[n].num]]

createNewGameState ==
    [version |-> CURRENT_VERSION,
     gold |-> 100,
     inventory |-> [i \in Indices |-> [position |-> i, sword |-> NULL]],
     quests |-> <<>>,
     achievements |-> <<>>,
     stats |-> [n \in StatNames |-> 0]]

\* localStorage holds nothing, a string JSON.parse throws on, or a JSON text
NoData == [kind |-> "absent", state |-> serialize(EmptySlots,
              [version |-> "", gold |-> 0, stats |-> [n \in StatNames |-> 0]], <<>>, <<>>)]
Garbage == [NoData EXCEPT !.kind = "garbage"]
Json(state) == [kind |-> "json", state |-> state]

\* deserialize that returns the parsed state without validating it
deserializeUnchecked(data) ==
    IF data.kind = "garbage" THEN [ok |-> FALSE, state |-> createNewGameState]
    ELSE [ok |-> TRUE, state |-> LoadedState(data.state)]

\* deserialize: whether a state came out, and the state
deserialize(data) ==
    IF data.kind = "garbage" THEN [ok |-> FALSE, state |-> createNewGameState]
    ELSE IF validateState(data.state)
         THEN [ok |-> TRUE, state |-> LoadedState(data.state)]
         ELSE [ok |-> FALSE, state |-> createNewGameState]

loadGame(data) ==
    IF data.kind = "absent" THEN [ok |-> FALSE, state |-> createNewGameState]
    ELSE deserialize(data)

\* loadGameState: the saved state when there is one, else a new game
loadGameState(data) ==
    IF loadGame(data).ok THEN loadGame(data).state ELSE createNewGameState

-----------------------------------------------------------------------------
(* The record of the call that has just returned and of the state it started *)
(* in. Both are cleared when the page goes back to waiting for an event.     *)

\* no distribution has been returned
NoConfig == [successRate |-> 0, maintainRate |-> 0, destroyRate |-> 0]

NoCall ==
    [op |-> "none", a |-> NullPosition, b |-> NullPosition, kind |-> "",
     ok |-> FALSE, out |-> NULL, num |-> 0, result |-> "", config |-> NoConfig,
     newlyUnlocked |-> <<>>]

\* gameState is null until init() runs
NullGameState == [version |-> "", gold |-> 0, stats |-> [n \in StatNames |-> 0]]

NoPre ==
    [slots |-> EmptySlots, gameState |-> NullGameState, quests |-> <<>>,
     achievements |-> <<>>, storage |-> NoData, nextId |-> 0]

Before ==
    [slots |-> slots, gameState |-> gameState, quests |-> quests,
     achievements |-> achievements, storage |-> storage, nextId |-> nextId]

\* no call is in progress or waiting to be looked at
Idle == last.op = "none"

\* the page goes back to waiting for the next event
return ==
    /\ ~Idle
    /\ last' = NoCall
    /\ pre' = NoPre
    /\ UNCHANGED <<slots, gameState, quests, achievements, storage, quotaExceeded,
                   enhanceCalls, gridCalls, nextId, phase>>

-----------------------------------------------------------------------------
(* GameController *)

updateStats(st, statType, value) ==
    IF statType \notin DOMAIN st THEN st
    ELSE IF statType = "maxLevel"
         THEN [st EXCEPT ![statType] = Max(@, value)]
         ELSE [st EXCEPT ![statType] = @ + value]

\* StorageManager.saveGame(state), serialized being what serialize(state)
\* returns: what it returns and what localStorage holds afterwards
\* a saveGame whose failed write leaves a cut-off text behind
saveGameCutsOff(serialized) ==
    IF quotaExceeded
    THEN [ret |-> FALSE, storage |-> Garbage]
    ELSE [ret |-> TRUE, storage |-> Json(serialized)]

saveGame(serialized) ==
    IF quotaExceeded
    THEN [ret |-> FALSE, storage |-> storage]
    ELSE [ret |-> TRUE, storage |-> Json(serialized)]

\* a save that writes the state the call started in
saveGameStateBeforeChange(s, gs, qs, as) ==
    IF ~quotaExceeded
    THEN storage' = Json(serialize(slots, gameState, quests, achievements))
    ELSE UNCHANGED storage

\* saveGameState: StorageManager.saveGame writes the serialized state, or
\* localStorage.setItem throws and saveGame returns false
saveGameState(s, gs, qs, as) ==
    storage' = saveGame(serialize(s, gs, qs, as)).storage

\* a controller call that ends in triggerAutoSave()
Saved(s, gs, qs, as, id, call) ==
    /\ slots' = s
    /\ gameState' = gs
    /\ quests' = qs
    /\ achievements' = as
    /\ nextId' = id
    /\ last' = call
    /\ pre' = Before
    /\ saveGameState(s, gs, qs, as)
    /\ enhanceCalls' = enhanceCalls + (IF call.op = "handleEnhancement" THEN 1 ELSE 0)
    /\ UNCHANGED <<quotaExceeded, gridCalls, phase>>

\* a call that returns without saving
Unsaved(s, gs, qs, as, id, call) ==
    /\ slots' = s
    /\ gameState' = gs
    /\ quests' = qs
    /\ achievements' = as
    /\ nextId' = id
    /\ last' = call
    /\ pre' = Before
    /\ UNCHANGED <<storage, quotaExceeded, enhanceCalls, gridCalls, phase>>

\* a refusal that saves the game on its way out
RejectedAfterSaving(call) == Saved(slots, gameState, quests, achievements, nextId, call)

Rejected(call) == Unsaved(slots, gameState, quests, achievements, nextId, call)

\* init(): loadGameState, then initializeSubsystems
init(selection) ==
    /\ phase = "boot"
    /\ LET state == loadGameState(storage)
       IN  /\ slots' = state.inventory
           /\ gameState' = [version |-> state.version, gold |-> state.gold,
                            stats |-> state.stats]
           /\ quests' = IF Len(state.quests) = 0
                        THEN generateDailyQuests(selection)
                        ELSE state.quests
           /\ achievements' = IF Len(state.achievements) = 0
                              THEN achievements
                              ELSE state.achievements
           /\ last' = [NoCall EXCEPT !.op = "init", !.ok = loadGame(storage).ok]
    /\ pre' = Before
    /\ phase' = "run"
    /\ UNCHANGED <<storage, quotaExceeded, enhanceCalls, gridCalls, nextId>>

\* a sale that pays the value of the level and leaves the enhancement out
sellSwordBaseValue(position) ==
    /\ phase = "run" /\ Idle
    /\ LET sword == getSword(slots, position)
           call == [NoCall EXCEPT !.op = "sellSword", !.a = position]
       IN  IF sword = NULL
           THEN Rejected([call EXCEPT !.ok = FALSE])
           ELSE LET paid == calculateGoldValue(sword.level, 0)
                    st == updateStats(updateStats(gameState.stats, "totalSales", 1),
                                      "totalGoldEarned", paid)
                    gs == [gameState EXCEPT !.gold = @ + paid, !.stats = st]
                IN  Saved(removeSword(slots, position).slots, gs,
                          updateProgress(quests, "sell", 1),
                          checkAchievements(achievements, st), nextId,
                          [call EXCEPT !.ok = TRUE])

sellSword(position) ==
    /\ phase = "run" /\ Idle
    /\ LET sword == getSword(slots, position)
           call == [NoCall EXCEPT !.op = "sellSword", !.a = position]
       IN  IF sword = NULL
           THEN Rejected([call EXCEPT !.ok = FALSE])
           ELSE LET st == updateStats(updateStats(gameState.stats, "totalSales", 1),
                                      "totalGoldEarned", sword.goldValue)
                    gs == [gameState EXCEPT !.gold = @ + sword.goldValue, !.stats = st]
                IN  Saved(removeSword(slots, position).slots, gs,
                          updateProgress(quests, "sell", 1),
                          checkAchievements(achievements, st), nextId,
                          [call EXCEPT !.ok = TRUE])

sellAllSwords ==
    /\ phase = "run" /\ Idle
    /\ LET totalValue == getTotalValue(slots)
           swordCount == countSwords(slots)
           call == [NoCall EXCEPT !.op = "sellAllSwords"]
       IN  IF totalValue = 0
           THEN Rejected([call EXCEPT !.num = 0])
           ELSE LET st == updateStats(updateStats(gameState.stats, "totalSales", swordCount),
                                      "totalGoldEarned", totalValue)
                    gs == [gameState EXCEPT !.gold = @ + totalValue, !.stats = st]
                IN  Saved(clear(slots), gs,
                          updateProgress(quests, "sell", swordCount),
                          checkAchievements(achievements, st), nextId,
                          [call EXCEPT !.num = totalValue, !.ok = TRUE])

handleMerge(sourcePos, targetPos) ==
    /\ phase = "run" /\ Idle
    /\ LET sword1 == getSword(slots, sourcePos)
           sword2 == getSword(slots, targetPos)
           call == [NoCall EXCEPT !.op = "handleMerge", !.a = sourcePos, !.b = targetPos]
       IN  IF sword1 = NULL \/ sword2 = NULL
           THEN Rejected(call)
           ELSE IF ~canMerge(sword1, sword2)
           THEN Rejected(call)
           ELSE LET mergedSword == merge(nextId, sword1, sword2).ret
                    removed == removeSword(removeSword(slots, sourcePos).slots,
                                           targetPos).slots
                    added == addSword(removed, mergedSword, targetPos).slots
                    merges == updateStats(gameState.stats, "totalMerges", 1)
                    st == IF mergedSword.level > merges.maxLevel
                          THEN [merges EXCEPT !.maxLevel = mergedSword.level]
                          ELSE merges
                IN  /\ nextId <= MaxNewSwords
                    /\ Saved(added, [gameState EXCEPT !.stats = st],
                             updateProgress(quests, "merge", 1),
                             checkAchievements(achievements, st), nextId + 1,
                             [call EXCEPT !.ok = TRUE, !.out = mergedSword])

handleEnhancement(position, roll) ==
    /\ phase = "run" /\ Idle
    /\ LET sword == getSword(slots, position)
           call == [NoCall EXCEPT !.op = "handleEnhancement", !.a = position]
       IN  IF sword = NULL
           THEN Rejected(call)
           ELSE LET result == enhance(sword, roll)
                    st == updateStats(gameState.stats, "totalEnhancements", 1)
                    s == CASE result = "SUCCESS" ->
                                addSword(removeSword(slots, position).slots,
                                         sword, position).slots
                           [] result = "MAINTAIN" -> slots
                           [] result = "DESTROY" -> removeSword(slots, position).slots
                IN  /\ enhanceCalls < MaxEnhancements
                    /\ Saved(s, [gameState EXCEPT !.stats = st],
                             updateProgress(quests, "enhance", 1),
                             checkAchievements(achievements, st), nextId,
                             [call EXCEPT !.ok = TRUE, !.result = result,
                                          !.out = IF result # "DESTROY" THEN sword ELSE NULL])

\* ShopSystem.purchaseBasicSword / purchaseLuckyBox: the result's success flag,
\* the sword bought and the slots afterwards
\* a purchase that does not look at the player's gold
purchaseAnyGold(s, playerGold, cost, sword) ==
    IF isFull(s) THEN [success |-> FALSE, sword |-> NULL, slots |-> s]
    ELSE IF ~addSword(s, sword, NullPosition).ret
         THEN [success |-> FALSE, sword |-> NULL, slots |-> s]
         ELSE [success |-> TRUE, sword |-> sword,
               slots |-> addSword(s, sword, NullPosition).slots]

purchase(s, playerGold, cost, sword) ==
    IF playerGold < cost THEN [success |-> FALSE, sword |-> NULL, slots |-> s]
    ELSE IF isFull(s) THEN [success |-> FALSE, sword |-> NULL, slots |-> s]
    ELSE IF ~addSword(s, sword, NullPosition).ret
         THEN [success |-> FALSE, sword |-> NULL, slots |-> s]
         ELSE [success |-> TRUE, sword |-> sword,
               slots |-> addSword(s, sword, NullPosition).slots]

purchaseBasicSword(s, playerGold, id) ==
    purchase(s, playerGold, 20, createSword(id, 1, 0))

\* rollLuckyBoxLevel, roll being Math.random() in hundredths
rollLuckyBoxLevel(roll) ==
    IF roll < 50 THEN 1
    ELSE IF roll < 75 THEN 2
    ELSE IF roll < 90 THEN 3
    ELSE IF roll < 97 THEN 4
    ELSE 5

\* level is what rollLuckyBoxLevel returned
purchaseLuckyBox(s, playerGold, id, level) ==
    purchase(s, playerGold, 100, createSword(id, level, 0))

handlePurchase(itemType, level) ==
    /\ phase = "run" /\ Idle
    /\ LET call == [NoCall EXCEPT !.op = "handlePurchase", !.kind = itemType]
       IN  IF itemType \notin {"basic", "luckybox"}
           THEN Rejected(call)
           ELSE LET result == IF itemType = "basic"
                              THEN purchaseBasicSword(slots, gameState.gold, nextId)
                              ELSE purchaseLuckyBox(slots, gameState.gold, nextId, level)
                    cost == IF itemType = "basic" THEN 20 ELSE 100
                    st == updateStats(gameState.stats, "totalPurchases", 1)
                IN  IF ~result.success
                    THEN Rejected(call)
                    ELSE /\ nextId <= MaxNewSwords
                         /\ Saved(result.slots,
                                  [gameState EXCEPT !.gold = @ - cost, !.stats = st],
                                  updateProgress(quests, "purchase", 1),
                                  checkAchievements(achievements, st), nextId + 1,
                                  [call EXCEPT !.ok = TRUE, !.out = result.sword])

handleQuestClaim(questId) ==
    /\ phase = "run" /\ Idle
    /\ LET claim == claimReward(quests, questId)
           call == [NoCall EXCEPT !.op = "handleQuestClaim", !.a = questId,
                                  !.num = claim.ret]
       IN  IF claim.ret > 0
           THEN Saved(slots, [gameState EXCEPT !.gold = @ + claim.ret], claim.quests,
                      achievements, nextId, [call EXCEPT !.ok = TRUE])
           ELSE Unsaved(slots, gameState, claim.quests, achievements, nextId, call)

\* the 30-second timer and the beforeunload handler call saveGameState()
autoSave ==
    /\ phase = "run" /\ Idle
    /\ Saved(slots, gameState, quests, achievements, nextId,
             [NoCall EXCEPT !.op = "saveGameState",
                            !.ok = saveGame(serialize(slots, gameState, quests,
                                                      achievements)).ret])

-----------------------------------------------------------------------------
(* DragDropHandler *)

\* DragDropHandler.handleMerge that inserts the new sword before it removes
\* the two sources
dragDropMergeInsertsFirst(s, pos1, pos2, id) ==
    LET sword1 == getSword(s, pos1)
        sword2 == getSword(s, pos2)
    IN  IF sword1 = NULL \/ sword2 = NULL THEN s
        ELSE IF ~canMerge(sword1, sword2) THEN s
        ELSE removeSword(removeSword(
                 addSword(s, merge(id, sword1, sword2).ret, pos2).slots,
                 pos1).slots, pos2).slots

\* handleMerge(pos1, pos2, inventory, mergeSystem): the slots afterwards
dragDropMerge(s, pos1, pos2, id) ==
    LET sword1 == getSword(s, pos1)
        sword2 == getSword(s, pos2)
    IN  IF sword1 = NULL \/ sword2 = NULL THEN s
        ELSE IF ~canMerge(sword1, sword2) THEN s
        ELSE addSword(removeSword(removeSword(s, pos1).slots, pos2).slots,
                      merge(id, sword1, sword2).ret, pos2).slots

\* onDrop on the slot targetPosition while draggedPosition is sourcePosition
onDrop(sourcePosition, targetPosition) ==
    /\ phase = "run" /\ Idle
    /\ LET sourceSword == getSword(slots, sourcePosition)
           targetSword == getSword(slots, targetPosition)
           call == [NoCall EXCEPT !.op = "onDrop", !.a = sourcePosition,
                                  !.b = targetPosition]
       IN  IF sourcePosition = NullPosition \/ sourcePosition = targetPosition
           THEN Rejected(call)
           ELSE IF sourceSword = NULL
           THEN Rejected(call)
           ELSE IF targetSword # NULL
           THEN IF canMerge(sourceSword, targetSword)
                THEN /\ nextId <= MaxNewSwords
                     /\ Unsaved(dragDropMerge(slots, sourcePosition, targetPosition, nextId),
                                gameState, quests, achievements, nextId + 1,
                                [call EXCEPT !.result = "merge", !.ok = TRUE])
                ELSE Unsaved(swapSwords(slots, sourcePosition, targetPosition).slots,
                             gameState, quests, achievements, nextId,
                             [call EXCEPT !.result = "swap", !.ok = TRUE])
           ELSE Unsaved(moveSword(slots, sourcePosition, targetPosition).slots,
                        gameState, quests, achievements, nextId,
                        [call EXCEPT !.result = "move", !.ok = TRUE])

-----------------------------------------------------------------------------
(* What localStorage may hold when the page opens *)

SavedSlots ==
    [EmptySlots EXCEPT ![0].sword = createSword(101, 1, 0),
                       ![1].sword = createSword(102, 1, 1),
                       ![2].sword = createSword(103, 2, 0)]

SavedGameState ==
    [version |-> CURRENT_VERSION, gold |-> 20,
     stats |-> [totalMerges |-> 1, totalEnhancements |-> 4, totalPurchases |-> 4,
                totalSales |-> 0, maxLevel |-> 2, totalGoldEarned |-> 0]]

SavedQuests ==
    [generateDailyQuests(<<3, 5, 7>>) EXCEPT ![1].current = 2, ![3].current = 4]

SavedAchievements == checkAchievements(initializeAchievements, SavedGameState.stats)

\* a stored game: four swords bought, two of them merged, four enhancement
\* attempts made, two of them since the quests were drawn; one sword is stored
\* with enhancement 1
SavedGame == serialize(SavedSlots, SavedGameState, SavedQuests, SavedAchievements)

\* a saved text in which the goldValue of the sword was edited by hand
EditedSlots == [EmptySlots EXCEPT ![0].sword = createSword(104, 2, 1)]

EditedGame ==
    [serialize(EditedSlots, SavedGameState, generateDailyQuests(<<1, 4, 6>>),
               SavedAchievements)
        EXCEPT !.inventory.items[0].sword.goldValue = JsNumber(999)]

\* a full grid: 25 swords of levels 1 and 2
FullSlots ==
    [i \in Indices |-> [position |-> i, sword |-> createSword(101 + i, 1 + (i % 2), 0)]]

FullGame ==
    serialize(FullSlots, [SavedGameState EXCEPT !.gold = 120],
              generateDailyQuests(<<2, 6, 8>>), SavedAchievements)

\* a text whose inventory array has 24 entries
ShortGame ==
    [SavedGame EXCEPT !.inventory.items = [i \in 0 .. 23 |-> SavedGame.inventory.items[i]]]

InitialStorage ==
    {NoData, Garbage, Json(SavedGame), Json(EditedGame), Json(FullGame), Json(ShortGame)}

\* the templates the shuffle of generateDailyQuests may pick
QuestSelections == {<<1, 3, 5>>, <<7, 4, 6>>}

\* the positions, in and out of range, the calls are tried with
Positions == {-1, 0, 1, 25}
\* the slots of the page a sword is dragged from or dropped on
DropPositions == Positions \cap Indices
QuestIds == 1 .. 4
ItemTypes == {"basic", "luckybox", "potion"}
\* what Math.random() may return in rollLuckyBoxLevel, in hundredths, as tried
\* here, and the levels rollLuckyBoxLevel then returns
LuckyRolls == {0, 97}
LuckyLevels == {rollLuckyBoxLevel(roll) : roll \in LuckyRolls}
\* what Math.random() may return, in tenths, as tried here
Rolls == {0, 8, 9}

-----------------------------------------------------------------------------
(* The game: new GameController(), init(), then the player's actions *)

Init ==
    /\ slots = EmptySlots
    /\ gameState = NullGameState
    /\ quests = <<>>
    /\ achievements = initializeAchievements
    /\ storage \in InitialStorage
    /\ quotaExceeded \in BOOLEAN
    /\ enhanceCalls = 0
    /\ gridCalls = 0
    /\ nextId = 1
    /\ phase = "boot"
    /\ last = NoCall
    /\ pre = NoPre

Next ==
    \/ \E selection \in QuestSelections : init(selection)
    \/ return
    \/ \E position \in Positions : sellSword(position)
    \/ sellAllSwords
    \/ \E sourcePos \in Positions, targetPos \in Positions : handleMerge(sourcePos, targetPos)
    \/ \E position \in Positions, roll \in Rolls : handleEnhancement(position, roll)
    \/ \E itemType \in ItemTypes, level \in LuckyLevels : handlePurchase(itemType, level)
    \/ \E questId \in QuestIds : handleQuestClaim(questId)
    \/ autoSave
    \/ \E sourcePosition \in DropPositions \cup {NullPosition},
          targetPosition \in DropPositions : onDrop(sourcePosition, targetPosition)

Spec == Init /\ [][Next]_vars

-----------------------------------------------------------------------------
(* The game opened on a saved game with a quest one step from its target, so *)
(* that a quest is completed and claimed along the way                       *)

QuestGameState ==
    [version |-> CURRENT_VERSION, gold |-> 20,
     stats |-> [totalMerges |-> 9, totalEnhancements |-> 0, totalPurchases |-> 12,
                totalSales |-> 0, maxLevel |-> 2, totalGoldEarned |-> 0]]

\* a merge quest one step from its target, a sell and a purchase quest
QuestQuests ==
    [generateDailyQuests(<<1, 5, 7>>) EXCEPT ![1].current = 9, ![3].current = 12]

QuestGame ==
    serialize(SavedSlots, QuestGameState, QuestQuests,
              checkAchievements(initializeAchievements, QuestGameState.stats))

QuestInit ==
    /\ slots = EmptySlots
    /\ gameState = NullGameState
    /\ quests = <<>>
    /\ achievements = initializeAchievements
    /\ storage = Json(QuestGame)
    /\ quotaExceeded = FALSE
    /\ enhanceCalls = 0
    /\ gridCalls = 0
    /\ nextId = 1
    /\ phase = "boot"
    /\ last = NoCall
    /\ pre = NoPre

QuestSpec == QuestInit /\ [][Next]_vars

-----------------------------------------------------------------------------
(* The game opened on a saved text in which the goldValue of the only sword  *)
(* was set to 0 by hand                                                      *)

ZeroValueGame ==
    [EditedGame EXCEPT !.inventory.items[0].sword.goldValue = JsNumber(0)]

EditedInit ==
    /\ slots = EmptySlots
    /\ gameState = NullGameState
    /\ quests = <<>>
    /\ achievements = initializeAchievements
    /\ storage = Json(ZeroValueGame)
    /\ quotaExceeded = FALSE
    /\ enhanceCalls = 0
    /\ gridCalls = 0
    /\ nextId = 1
    /\ phase = "boot"
    /\ last = NoCall
    /\ pre = NoPre

EditedSpec == EditedInit /\ [][Next]_vars

-----------------------------------------------------------------------------
(* The grid alone: a new InventoryManager(), or one that already holds       *)
(* swords, driven through its methods with arguments of every kind           *)

\* a call of a method of the grid or of the merge system: it changes the slots
Called(s, id, call) ==
    /\ Idle
    /\ s # slots => gridCalls < MaxGridCalls
    /\ slots' = s
    /\ gridCalls' = gridCalls + (IF s # slots THEN 1 ELSE 0)
    /\ nextId' = id
    /\ last' = call
    /\ pre' = Before
    /\ UNCHANGED <<gameState, quests, achievements, storage, quotaExceeded,
                   enhanceCalls, phase>>

callAddSword(sword, position) ==
    /\ phase = "grid"
    /\ LET r == addSword(slots, sword, position)
       IN  Called(r.slots, nextId,
                  [NoCall EXCEPT !.op = "addSword", !.a = position, !.out = sword,
                                 !.ok = r.ret])

callRemoveSword(position) ==
    /\ phase = "grid"
    /\ LET r == removeSword(slots, position)
       IN  Called(r.slots, nextId,
                  [NoCall EXCEPT !.op = "removeSword", !.a = position, !.out = r.ret,
                                 !.ok = r.ret # NULL])

callMoveSword(fromPos, toPos) ==
    /\ phase = "grid"
    /\ LET r == moveSword(slots, fromPos, toPos)
       IN  Called(r.slots, nextId,
                  [NoCall EXCEPT !.op = "moveSword", !.a = fromPos, !.b = toPos,
                                 !.ok = r.ret])

callSwapSwords(pos1, pos2) ==
    /\ phase = "grid"
    /\ LET r == swapSwords(slots, pos1, pos2)
       IN  Called(r.slots, nextId,
                  [NoCall EXCEPT !.op = "swapSwords", !.a = pos1, !.b = pos2,
                                 !.ok = r.ret])

callSortByLevel ==
    /\ phase = "grid"
    /\ Called(sortByLevel(slots), nextId,
              [NoCall EXCEPT !.op = "sortByLevel", !.ok = TRUE])

callClear ==
    /\ phase = "grid"
    /\ Called(clear(slots), nextId, [NoCall EXCEPT !.op = "clear", !.ok = TRUE])

\* what a caller may pass as a sword: null, two swords, a sword of level 0 and
\* a sword of upgrade level -1
GridSwords ==
    {NULL, createSword(1, 1, 0), createSword(2, 3, 1), createSword(3, 0, 0),
     createSword(4, 1, -1)}

\* a grid that holds two swords with an empty slot between them
SparseSlots ==
    [EmptySlots EXCEPT ![0].sword = createSword(101, 1, 0),
                       ![2].sword = createSword(102, 2, 1)]

GridStarts == {EmptySlots, SparseSlots, FullSlots}

\* the positions the grid's methods are tried with; NullPosition is "not given"
GridPositions == {-1, 0, 1, 25}

GridInit ==
    /\ slots \in GridStarts
    /\ gameState = NullGameState
    /\ quests = <<>>
    /\ achievements = initializeAchievements
    /\ storage = NoData
    /\ quotaExceeded = FALSE
    /\ enhanceCalls = 0
    /\ gridCalls = 0
    /\ nextId = 1
    /\ phase = "grid"
    /\ last = NoCall
    /\ pre = NoPre

\* a call of one of the grid's methods
GridCall ==
    \/ \E sword \in GridSwords, position \in GridPositions \cup {NullPosition} :
          callAddSword(sword, position)
    \/ \E position \in GridPositions : callRemoveSword(position)
    \/ \E fromPos \in GridPositions, toPos \in GridPositions : callMoveSword(fromPos, toPos)
    \/ \E pos1 \in GridPositions, pos2 \in GridPositions : callSwapSwords(pos1, pos2)
    \/ callSortByLevel
    \/ callClear

GridNext == GridCall \/ return

GridSpec == GridInit /\ [][GridNext]_vars

-----------------------------------------------------------------------------
(* The merge system alone: canMerge and merge applied to what two slots hold *)

\* canMerge(sword1, sword2) on the swords of two slots
callCanMerge(pos1, pos2) ==
    /\ phase = "merge"
    /\ Called(slots, nextId,
              [NoCall EXCEPT !.op = "canMerge", !.a = pos1, !.b = pos2,
                             !.ok = canMerge(getSword(slots, pos1), getSword(slots, pos2))])

\* merge(sword1, sword2) on the swords of two slots; the slots hold the two
\* objects, so whatever merge did to its arguments shows in the slots
callMerge(pos1, pos2) ==
    /\ phase = "merge"
    /\ nextId <= MaxNewSwords
    /\ LET m == merge(nextId, getSword(slots, pos1), getSword(slots, pos2))
           s == [i \in DOMAIN slots |->
                    [slots[i] EXCEPT !.sword = IF i = pos2 THEN m.sword2
                                               ELSE IF i = pos1 THEN m.sword1
                                               ELSE @]]
       IN  Called(s, nextId + 1,
                  [NoCall EXCEPT !.op = "merge", !.a = pos1, !.b = pos2,
                                 !.ok = ~m.threw, !.out = m.ret,
                                 !.result = IF m.threw THEN "Error" ELSE ""])

\* the swords merge is tried on: null and every sword of these levels
MergeLevels == 1 .. MaxMergeLevel
MergeEnhancements == 0 .. 2

MergeSwords(id) ==
    {NULL} \cup {createSword(id, l, e) : l \in MergeLevels, e \in MergeEnhancements}

MergePositions == {0, 1}

MergeInit ==
    /\ \E sword1 \in MergeSwords(101), sword2 \in MergeSwords(102) :
          slots = [EmptySlots EXCEPT ![0].sword = sword1, ![1].sword = sword2]
    /\ gameState = NullGameState
    /\ quests = <<>>
    /\ achievements = initializeAchievements
    /\ storage = NoData
    /\ quotaExceeded = FALSE
    /\ enhanceCalls = 0
    /\ gridCalls = 0
    /\ nextId = 1
    /\ phase = "merge"
    /\ last = NoCall
    /\ pre = NoPre

MergeNext ==
    \/ \E pos1 \in MergePositions, pos2 \in MergePositions : callCanMerge(pos1, pos2)
    \/ \E pos1 \in MergePositions, pos2 \in MergePositions : callMerge(pos1, pos2)
    \/ return

MergeSpec == MergeInit /\ [][MergeNext]_vars

-----------------------------------------------------------------------------
(* The enhancement rule alone: getEnhancementConfig, rollEnhancement and     *)
(* enhance applied to enhancements, distributions and rolls of every kind    *)

EnhancementLevels == 0 .. MaxEnhancementLevel

\* every value of Math.random(), in tenths
AllRolls == 0 .. 9

\* the distributions rollEnhancement is tried with: those getEnhancementConfig
\* returns and those of the unit tests
Configs ==
    {getEnhancementConfig(e) : e \in EnhancementLevels}
        \cup {[successRate |-> 9, maintainRate |-> 1, destroyRate |-> 0],
              [successRate |-> 6, maintainRate |-> 3, destroyRate |-> 1],
              [successRate |-> 5, maintainRate |-> 3, destroyRate |-> 2]}

callGetEnhancementConfig(enhancement) ==
    /\ phase = "enhance"
    /\ Called(slots, nextId,
              [NoCall EXCEPT !.op = "getEnhancementConfig", !.num = enhancement,
                             !.config = getEnhancementConfig(enhancement)])

callRollEnhancement(config, roll) ==
    /\ phase = "enhance"
    /\ Called(slots, nextId,
              [NoCall EXCEPT !.op = "rollEnhancement", !.num = roll, !.config = config,
                             !.result = rollEnhancement(config, roll)])

\* enhance(sword) on the sword of a slot
callEnhance(position, roll) ==
    /\ phase = "enhance"
    /\ getSword(slots, position) # NULL
    /\ Called(slots, nextId,
              [NoCall EXCEPT !.op = "enhance", !.a = position, !.num = roll,
                             !.out = getSword(slots, position),
                             !.result = enhance(getSword(slots, position), roll)])

EnhanceInit ==
    /\ \E e \in EnhancementLevels :
          slots = [EmptySlots EXCEPT ![0].sword = createSword(101, 1, e)]
    /\ gameState = NullGameState
    /\ quests = <<>>
    /\ achievements = initializeAchievements
    /\ storage = NoData
    /\ quotaExceeded = FALSE
    /\ enhanceCalls = 0
    /\ gridCalls = 0
    /\ nextId = 1
    /\ phase = "enhance"
    /\ last = NoCall
    /\ pre = NoPre

EnhanceNext ==
    \/ \E enhancement \in EnhancementLevels : callGetEnhancementConfig(enhancement)
    \/ \E config \in Configs, roll \in AllRolls : callRollEnhancement(config, roll)
    \/ \E roll \in AllRolls : callEnhance(0, roll)
    \/ return

EnhanceSpec == EnhanceInit /\ [][EnhanceNext]_vars

-----------------------------------------------------------------------------
(* Loading alone: what loadGame, deserialize and validateState make of the   *)
(* texts localStorage may hold, and the state init() starts the game in      *)

\* the value JSON.parse gives for the text "null"
NullJson ==
    [type |-> "null",
     version |-> JsUndefined,
     player |-> [type |-> "undefined", gold |-> JsUndefined],
     inventory |-> [type |-> "undefined", items |-> [i \in {} |-> NULL]],
     quests |-> [type |-> "undefined", items |-> <<>>],
     achievements |-> [type |-> "undefined", items |-> <<>>],
     stats |-> [type |-> "undefined", fields |-> [n \in StatNames |-> JsUndefined]]]

\* an entry of the inventory array that is null, and a sword that is missing
NullSlot ==
    [type |-> "null", position |-> JsUndefined,
     sword |-> [StoredNullSword EXCEPT !.type = "undefined"]]

\* a text whose inventory array has 26 entries
LongGame ==
    [SavedGame EXCEPT !.inventory.items =
        [i \in 0 .. 25 |-> IF i \in Indices THEN SavedGame.inventory.items[i]
                           ELSE [type |-> "object", position |-> JsNumber(i),
                                 sword |-> StoredNullSword]]]

\* saved texts with one field missing or of another type
DamagedGames ==
    {NullJson, ShortGame, LongGame,
     [SavedGame EXCEPT !.version = JsUndefined],
     [SavedGame EXCEPT !.version = JsNumber(1)],
     [SavedGame EXCEPT !.player = NullJson.player],
     [SavedGame EXCEPT !.player.gold = JsUndefined],
     [SavedGame EXCEPT !.player.gold = JsString("100")],
     [SavedGame EXCEPT !.inventory = NullJson.inventory],
     [SavedGame EXCEPT !.inventory.type = "object"],
     [SavedGame EXCEPT !.inventory.items[3] = NullSlot],
     [SavedGame EXCEPT !.inventory.items[3].position = JsUndefined],
     [SavedGame EXCEPT !.inventory.items[0].position = JsString("0")],
     [SavedGame EXCEPT !.inventory.items[4].sword.type = "undefined"],
     [SavedGame EXCEPT !.inventory.items[0].sword.id = JsNumber(101)],
     [SavedGame EXCEPT !.inventory.items[1].sword.level = JsString("1")],
     [SavedGame EXCEPT !.inventory.items[1].sword.enhancement = JsUndefined],
     [SavedGame EXCEPT !.inventory.items[2].sword.goldValue = JsUndefined],
     [SavedGame EXCEPT !.quests = NullJson.quests],
     [SavedGame EXCEPT !.achievements.type = "object"],
     [SavedGame EXCEPT !.stats = NullJson.stats],
     [SavedGame EXCEPT !.stats.fields["maxLevel"] = JsUndefined],
     [SavedGame EXCEPT !.stats.fields["totalSales"] = JsString("0")]}

\* saved texts, edited by hand, whose fields all have the type they should
OddGames ==
    {[SavedGame EXCEPT !.player.gold = JsNumber(-5)],
     [SavedGame EXCEPT !.version = JsString("0.9.0")],
     [SavedGame EXCEPT !.inventory.items[0].sword.level = JsNumber(0)],
     [SavedGame EXCEPT !.inventory.items[1].sword.enhancement = JsNumber(-1)],
     [SavedGame EXCEPT !.inventory.items[2].position = JsNumber(7)]}

\* the text saveGame writes for a new game
NewGame ==
    serialize(createNewGameState.inventory,
              [version |-> CURRENT_VERSION, gold |-> 100,
               stats |-> createNewGameState.stats],
              generateDailyQuests(<<1, 3, 5>>), initializeAchievements)

LoadStorage ==
    {NoData, Garbage} \cup
    {Json(state) : state \in {SavedGame, FullGame, NewGame} \cup DamagedGames \cup OddGames}

\* validateState(JSON.parse(data))
callValidateState ==
    /\ phase = "boot" /\ Idle
    /\ storage.kind = "json"
    /\ Rejected([NoCall EXCEPT !.op = "validateState",
                               !.ok = validateState(storage.state)])

\* deserialize(data): ok when a state, not null, is returned
callDeserialize ==
    /\ phase = "boot" /\ Idle
    /\ storage.kind # "absent"
    /\ Rejected([NoCall EXCEPT !.op = "deserialize", !.ok = deserialize(storage).ok])

\* loadGame(): ok when a state, not null, is returned
callLoadGame ==
    /\ phase = "boot" /\ Idle
    /\ Rejected([NoCall EXCEPT !.op = "loadGame", !.ok = loadGame(storage).ok])

LoadInit ==
    /\ slots = EmptySlots
    /\ gameState = NullGameState
    /\ quests = <<>>
    /\ achievements = initializeAchievements
    /\ storage \in LoadStorage
    /\ quotaExceeded = FALSE
    /\ enhanceCalls = 0
    /\ gridCalls = 0
    /\ nextId = 1
    /\ phase = "boot"
    /\ last = NoCall
    /\ pre = NoPre

LoadNext ==
    \/ callValidateState
    \/ callDeserialize
    \/ callLoadGame
    \/ \E selection \in QuestSelections : init(selection)
    \/ return

LoadSpec == LoadInit /\ [][LoadNext]_vars

-----------------------------------------------------------------------------
(* The gold value alone: calculateGoldValue and createSword called with the  *)
(* levels and enhancements of the swords a game can hold                     *)

ValueLevels == 1 .. MaxValueLevel

callCalculateGoldValue(level, enhancement) ==
    /\ phase = "value" /\ Idle
    /\ Rejected([NoCall EXCEPT !.op = "calculateGoldValue", !.a = level,
                               !.b = enhancement,
                               !.num = calculateGoldValue(level, enhancement)])

callCreateSword(level, enhancement) ==
    /\ phase = "value" /\ Idle
    /\ Rejected([NoCall EXCEPT !.op = "createSword", !.a = level, !.b = enhancement,
                               !.out = createSword(nextId, level, enhancement)])

ValueInit ==
    /\ slots = EmptySlots
    /\ gameState = NullGameState
    /\ quests = <<>>
    /\ achievements = initializeAchievements
    /\ storage = NoData
    /\ quotaExceeded = FALSE
    /\ enhanceCalls = 0
    /\ gridCalls = 0
    /\ nextId = 1
    /\ phase = "value"
    /\ last = NoCall
    /\ pre = NoPre

ValueNext ==
    \/ \E level \in ValueLevels, enhancement \in EnhancementLevels :
          callCalculateGoldValue(level, enhancement)
    \/ \E level \in ValueLevels, enhancement \in EnhancementLevels :
          callCreateSword(level, enhancement)
    \/ return

ValueSpec == ValueInit /\ [][ValueNext]_vars

-----------------------------------------------------------------------------
(* The achievements alone: a new AchievementSystem() whose checkAchievements *)
(* is called with stats that rise and fall                                   *)

\* the stats objects checkAchievements is called with
AchievementStats ==
    {[totalMerges |-> m, totalEnhancements |-> 0, totalPurchases |-> 0,
      totalSales |-> 0, maxLevel |-> l, totalGoldEarned |-> g] :
        m \in {0, 1, 100}, l \in {1, 10}, g \in {0, 1000000}}

callCheckAchievements(stats) ==
    /\ phase = "achievements" /\ Idle
    /\ Unsaved(slots, [gameState EXCEPT !.stats = stats], quests,
               checkAchievements(achievements, stats), nextId,
               [NoCall EXCEPT !.op = "checkAchievements",
                              !.newlyUnlocked = newlyUnlocked(achievements, stats)])

AchievementInit ==
    /\ slots = EmptySlots
    /\ gameState = NullGameState
    /\ quests = <<>>
    /\ achievements = initializeAchievements
    /\ storage = NoData
    /\ quotaExceeded = FALSE
    /\ enhanceCalls = 0
    /\ gridCalls = 0
    /\ nextId = 1
    /\ phase = "achievements"
    /\ last = NoCall
    /\ pre = NoPre

AchievementNext ==
    \/ \E stats \in AchievementStats : callCheckAchievements(stats)
    \/ return

AchievementSpec == AchievementInit /\ [][AchievementNext]_vars

-----------------------------------------------------------------------------
(* Every way the grid is used: by the controller and the page, and directly  *)

AllInit == Init \/ GridInit

AllNext == Next \/ GridCall

AllSpec == AllInit /\ [][AllNext]_vars

-----------------------------------------------------------------------------
(* The grid's structure *)

\* C1: after any sequence of grid operations and controller operations the
\* grid has exactly 25 slots, between 0 and 25 of them are occupied, and the
\* occupied and the empty slots together are 25
C1_GridHasCapacitySlots ==
    /\ DOMAIN slots = Indices
    /\ Len0(slots) = CAPACITY
    /\ countSwords(slots) \in 0 .. CAPACITY
    /\ countSwords(slots) + Cardinality({i \in DOMAIN slots : slots[i].sword = NULL})
         = CAPACITY

\* a purchase has just filled the last empty slot of the grid
C1_Witness ==
    /\ last.op = "handlePurchase" /\ last.ok
    /\ countSwords(pre.slots) = CAPACITY - 1
    /\ countSwords(slots) = CAPACITY

-----------------------------------------------------------------------------
(* addSword *)

\* C2: addSword(item, index) returns false and leaves every slot unchanged when
\* the item is null or has level < 1 or enhancement < 0, when a given index is
\* outside 0..24, when the target slot is occupied, or when no index is given
\* and the grid is full; otherwise it returns true and only the target slot
\* (the given index, or the lowest empty slot) changes, now holding the item
C2_AddSwordContract ==
    last.op = "addSword" =>
        LET sword == last.out
            position == last.a
            before == pre.slots
            empties == {i \in Indices : before[i].sword = NULL}
            target == IF position # NullPosition THEN position
                      ELSE IF empties = {} THEN NullPosition
                      ELSE CHOOSE i \in empties : \A j \in empties : i <= j
            fails == \/ sword = NULL
                     \/ sword.level < 1
                     \/ sword.enhancement < 0
                     \/ (position # NullPosition /\ position \notin Indices)
                     \/ (position = NullPosition /\ empties = {})
                     \/ (target \in Indices /\ before[target].sword # NULL)
        IN  IF fails
            THEN ~last.ok /\ slots = before
            ELSE /\ last.ok
                 /\ slots[target] = [position |-> target, sword |-> sword]
                 /\ \A i \in Indices \ {target} : slots[i] = before[i]

\* a sword added without an index has gone to slot 1, slot 0 being occupied
C2_Witness ==
    /\ last.op = "addSword" /\ last.ok /\ last.a = NullPosition
    /\ pre.slots[0].sword # NULL
    /\ pre.slots[1].sword = NULL
    /\ slots[1].sword = last.out

\* C4: in every grid state reachable by add, remove, move, swap, sort and clear
\* calls with any arguments, no item is held by two slots at the same time
C4_NoItemInTwoSlots ==
    \A i \in Indices, j \in Indices :
        (i # j /\ slots[i].sword # NULL) => slots[i].sword.id # slots[j].sword.id

-----------------------------------------------------------------------------
(* canMerge and merge *)

\* C5: for every pair of swords of equal level T, whatever their enhancements,
\* merge returns a new sword of level T+1, enhancement 0 and gold value
\* floor(2^T * 10) (two level-5 swords give a level-6 sword worth 320), and the
\* two source swords are unchanged by the call
C5_MergeGivesNextLevel ==
    last.op = "merge" =>
        LET sword1 == pre.slots[last.a].sword
            sword2 == pre.slots[last.b].sword
        IN  (sword1 # NULL /\ sword2 # NULL /\ sword1.level = sword2.level) =>
                /\ last.ok
                /\ last.out # NULL
                /\ last.out.level = sword1.level + 1
                /\ last.out.enhancement = 0
                /\ last.out.goldValue = Pow2(sword1.level) * 10
                /\ (sword1.level = 5 => last.out.level = 6 /\ last.out.goldValue = 320)
                /\ slots[last.a].sword = sword1
                /\ slots[last.b].sword = sword2

\* two level-5 swords of different enhancements have been merged
C5_Witness ==
    /\ last.op = "merge" /\ last.ok /\ last.a # last.b
    /\ pre.slots[last.a].sword.level = 5
    /\ pre.slots[last.b].sword.level = 5
    /\ pre.slots[last.a].sword.enhancement # pre.slots[last.b].sword.enhancement
    /\ last.out.level = 6

\* C6: canMerge(a, b) is true iff both swords are present and their levels are
\* equal, whatever their enhancements; whenever canMerge is false, merge fails
\* with an error, returns no sword, and changes neither argument nor the grid
C6_CanMergeDecidesMerge ==
    LET sword1 == pre.slots[last.a].sword
        sword2 == pre.slots[last.b].sword
        mergeable == sword1 # NULL /\ sword2 # NULL /\ sword1.level = sword2.level
    IN  /\ last.op = "canMerge" => (last.ok <=> mergeable)
        /\ (last.op = "merge" /\ ~mergeable) =>
                /\ ~last.ok
                /\ last.result = "Error"
                /\ last.out = NULL
                /\ slots = pre.slots

\* merge has thrown on two swords that are present and differ in level
C6_Witness ==
    /\ last.op = "merge" /\ last.result = "Error"
    /\ pre.slots[last.a].sword # NULL
    /\ pre.slots[last.b].sword # NULL
    /\ pre.slots[last.a].sword.level # pre.slots[last.b].sword.level

-----------------------------------------------------------------------------
(* The gold value of the swords held *)

\* C3: every sword held in the grid has goldValue equal to
\* floor(2^(level-1) * 10 * (1 + 0.5 * enhancement)) in every reachable state:
\* after creation, after every operation, and after the grid is installed from
\* a stored state that validateState accepted
C3_GoldValueFollowsFormula ==
    \A i \in DOMAIN slots :
        slots[i].sword # NULL =>
            slots[i].sword.goldValue =
                (Pow2(slots[i].sword.level - 1) * 10 * (2 + slots[i].sword.enhancement)) \div 2

-----------------------------------------------------------------------------
(* Merging two slots *)

\* C7: when a merge of two swords of equal level held in two different slots
\* succeeds (GameController.handleMerge or DragDropHandler.handleMerge), the
\* source slot is empty afterwards, the target slot holds the one new sword of
\* level + 1 and enhancement 0, and every other slot is unchanged: the sources
\* were removed before the new sword was inserted
C7_MergeReplacesBothSources ==
    ( /\ \/ last.op = "handleMerge" /\ last.ok
         \/ last.op = "onDrop" /\ last.result = "merge"
      /\ last.a # last.b ) =>
        LET source == pre.slots[last.a].sword
            target == pre.slots[last.b].sword
        IN  /\ slots[last.a].sword = NULL
            /\ slots[last.b].sword # NULL
            /\ slots[last.b].sword.level = target.level + 1
            /\ slots[last.b].sword.enhancement = 0
            /\ slots[last.b].sword.id \notin {source.id, target.id}
            /\ \A i \in Indices \ {last.a, last.b} : slots[i] = pre.slots[i]
            /\ countSwords(slots) = countSwords(pre.slots) - 1

\* the controller has merged the swords of two different slots
C7_Witness ==
    /\ last.op = "handleMerge" /\ last.ok /\ last.a # last.b
    /\ pre.slots[last.a].sword # NULL
    /\ pre.slots[last.b].sword # NULL
    /\ slots[last.a].sword = NULL
    /\ slots[last.b].sword = last.out

-----------------------------------------------------------------------------
(* The three outcomes of an enhancement attempt *)

\* C8: when an enhancement attempt on the sword at a slot yields SUCCESS, then
\* after handleEnhancement returns the sword at that slot has an enhancement
\* exactly one higher than before the attempt, and its goldValue is the value
\* formula of its level and its new enhancement
C8_SuccessRaisesEnhancement ==
    (last.op = "handleEnhancement" /\ last.result = "SUCCESS") =>
        LET before == pre.slots[last.a].sword
            after == slots[last.a].sword
        IN  /\ after # NULL
            /\ after.level = before.level
            /\ after.enhancement = before.enhancement + 1
            /\ after.goldValue = (Pow2(after.level - 1) * 10 * (2 + after.enhancement)) \div 2

\* C9: when an enhancement attempt on the sword at a slot yields DESTROY, after
\* handleEnhancement returns that slot is empty, the number of swords held is
\* one less than before, every other slot is unchanged, and the sword returned
\* is null
C9_DestroyEmptiesSlot ==
    (last.op = "handleEnhancement" /\ last.result = "DESTROY") =>
        /\ pre.slots[last.a].sword # NULL
        /\ slots[last.a].sword = NULL
        /\ countSwords(slots) = countSwords(pre.slots) - 1
        /\ \A i \in Indices \ {last.a} : slots[i] = pre.slots[i]
        /\ last.out = NULL

\* an attempt has destroyed one sword of a grid that holds others
C9_Witness ==
    /\ last.op = "handleEnhancement" /\ last.result = "DESTROY"
    /\ pre.slots[last.a].sword.enhancement >= 1
    /\ slots[last.a].sword = NULL
    /\ countSwords(slots) >= 1

\* C10: when an enhancement attempt yields MAINTAIN, every slot of the grid and
\* the sword's level, enhancement and goldValue are the same after
\* handleEnhancement as before; only the totalEnhancements statistic and the
\* progress of the enhance quests advance
C10_MaintainChangesNothingElse ==
    (last.op = "handleEnhancement" /\ last.result = "MAINTAIN") =>
        /\ slots = pre.slots
        /\ last.out = pre.slots[last.a].sword
        /\ gameState.gold = pre.gameState.gold
        /\ gameState.version = pre.gameState.version
        /\ gameState.stats.totalEnhancements = pre.gameState.stats.totalEnhancements + 1
        /\ \A n \in StatNames \ {"totalEnhancements"} :
              gameState.stats[n] = pre.gameState.stats[n]
        /\ achievements = pre.achievements
        /\ DOMAIN quests = DOMAIN pre.quests
        /\ \A k \in DOMAIN quests :
              IF pre.quests[k].type = "enhance" /\ ~pre.quests[k].claimed
              THEN /\ quests[k].current = pre.quests[k].current + 1
                   /\ [quests[k] EXCEPT !.current = 0, !.completed = FALSE]
                        = [pre.quests[k] EXCEPT !.current = 0, !.completed = FALSE]
              ELSE quests[k] = pre.quests[k]

\* an attempt has left the sword as it was; quests of other types are under way
C10_Witness ==
    /\ last.op = "handleEnhancement" /\ last.result = "MAINTAIN"
    /\ slots[last.a].sword = pre.slots[last.a].sword
    /\ \E k \in DOMAIN quests : quests[k].type = "enhance" /\ quests[k].current > pre.quests[k].current
    /\ \E k \in DOMAIN quests : quests[k].type # "enhance"

-----------------------------------------------------------------------------
(* The distribution of an enhancement attempt. Rates are in tenths.         *)

\* C11: for every enhancement >= 0, getEnhancementConfig returns
\* successRate = max(0.3, 0.9 - 0.1 * enhancement), destroyRate =
\* min(0.5, 0.1 * enhancement) and maintainRate = 1 - successRate - destroyRate;
\* the three sum to 1, successRate is in [0.3, 0.9], destroyRate is in [0, 0.5]
\* and maintainRate is never negative
C11_ConfigIsADistribution ==
    last.op = "getEnhancementConfig" =>
        LET e == last.num
            c == last.config
        IN  /\ c.successRate = (IF 9 - e >= 3 THEN 9 - e ELSE 3)
            /\ c.destroyRate = (IF e <= 5 THEN e ELSE 5)
            /\ c.maintainRate = 10 - c.successRate - c.destroyRate
            /\ c.successRate + c.maintainRate + c.destroyRate = 10
            /\ c.successRate \in 3 .. 9
            /\ c.destroyRate \in 0 .. 5
            /\ c.maintainRate >= 0

\* the distribution of an enhancement past both clamps has been returned
C11_Witness ==
    /\ last.op = "getEnhancementConfig"
    /\ last.num >= 7
    /\ last.config.successRate = 3
    /\ last.config.destroyRate = 5
    /\ last.config.maintainRate = 2

\* C12: for a given distribution and every roll r in [0, 1), the attempt returns
\* SUCCESS iff r < successRate, MAINTAIN iff successRate <= r < successRate +
\* maintainRate, and DESTROY otherwise; exactly one of the three is returned
C12_RollFollowsThresholds ==
    last.op = "rollEnhancement" =>
        LET r == last.num
            c == last.config
        IN  /\ last.result \in {"SUCCESS", "MAINTAIN", "DESTROY"}
            /\ last.result = "SUCCESS" <=> r < c.successRate
            /\ last.result = "MAINTAIN" <=>
                  (c.successRate <= r /\ r < c.successRate + c.maintainRate)
            /\ last.result = "DESTROY" <=> r >= c.successRate + c.maintainRate

\* a roll in the last range of a distribution with all three ranges gave DESTROY
C12_Witness ==
    /\ last.op = "rollEnhancement"
    /\ last.config.maintainRate > 0
    /\ last.config.destroyRate > 0
    /\ last.num >= last.config.successRate + last.config.maintainRate
    /\ last.result = "DESTROY"

-----------------------------------------------------------------------------
(* Saving and loading *)

C14_StructureIsChecked ==
    LET state == storage.state
        defect ==
            \/ state.inventory.type # "array"
            \/ Len0(state.inventory.items) # 25
            \/ state.version.type # "string"
            \/ state.player.gold.type # "number"
            \/ \E i \in DOMAIN state.inventory.items :
                   state.inventory.items[i].position.type # "number"
            \/ \E n \in StatNames : state.stats.fields[n].type # "number"
    IN  (last.op = "validateState" /\ defect) => ~last.ok

\* validateState has rejected a text whose only defect is a slot position
\* that is a string
C14_Witness ==
    /\ last.op = "validateState" /\ ~last.ok
    /\ 0 \in DOMAIN storage.state.inventory.items
    /\ storage.state.inventory.items[0].position = JsString("0")
    /\ validateState([storage.state EXCEPT
                          !.inventory.items[0].position = JsNumber(0)])

\* C15: validateState returns false for every parsed text whose gold is a
\* negative number, and so the game never starts from a saved text with
\* negative gold.
C15_NegativeGoldIsRejected ==
    /\ (/\ last.op = "validateState"
        /\ storage.state.player.gold.type = "number"
        /\ storage.state.player.gold.num < 0) => ~last.ok
    /\ (last.op = "init" /\ last.ok) => gameState.gold >= 0

\* C16: validateState returns false for every parsed text holding a sword whose
\* level is not an integer >= 1 or whose enhancement is not an integer >= 0, and
\* so addSword would accept every sword of a saved text the game starts from.
C16_SwordValuesAreChecked ==
    /\ (/\ last.op = "validateState"
        /\ \E i \in DOMAIN storage.state.inventory.items :
              LET sword == storage.state.inventory.items[i].sword
              IN  /\ sword.type = "object"
                  /\ \/ sword.level.type # "number"
                     \/ sword.level.num < 1
                     \/ sword.enhancement.type # "number"
                     \/ sword.enhancement.num < 0) => ~last.ok
    /\ (last.op = "init" /\ last.ok) =>
           \A i \in Indices :
               slots[i].sword # NULL => addSword(EmptySlots, slots[i].sword, i).ret

\* C17: validateState returns true only for a parsed text whose version is the
\* string '1.0.0'; a text with any other version string is rejected.
C17_OnlyCurrentVersion ==
    /\ (last.op = "validateState" /\ last.ok) =>
           storage.state.version = JsString(CURRENT_VERSION)
    /\ (last.op = "init" /\ last.ok) => gameState.version = CURRENT_VERSION

\* C18: when localStorage holds nothing, a text that does not parse, or a text
\* validateState rejects, the game starts in the new state: 25 empty slots,
\* gold 100, all stats zero, version '1.0.0', newly generated quests and the
\* initial achievements. Only a text validateState accepts is loaded.
C18_RejectedDataGivesNewGame ==
    last.op = "init" =>
        IF storage.kind = "json" /\ validateState(storage.state)
        THEN /\ last.ok
             /\ slots = LoadedState(storage.state).inventory
             /\ gameState.gold = storage.state.player.gold.num
             /\ gameState.version = storage.state.version.str
             /\ \A n \in StatNames : gameState.stats[n] = storage.state.stats.fields[n].num
        ELSE /\ ~last.ok
             /\ slots = [i \in Indices |-> [position |-> i, sword |-> NULL]]
             /\ gameState.gold = 100
             /\ gameState.version = "1.0.0"
             /\ \A n \in StatNames : gameState.stats[n] = 0
             /\ \E selection \in QuestSelections : quests = generateDailyQuests(selection)
             /\ achievements = initializeAchievements

\* the game has started anew although the stored text holds swords and gold:
\* one of its stats is a string
C18_Witness ==
    /\ last.op = "init" /\ ~last.ok
    /\ storage.kind = "json"
    /\ storage.state.stats.fields["totalSales"] = JsString("0")
    /\ storage.state.inventory.items[0].sword.type = "object"
    /\ storage.state.player.gold = JsNumber(20)
    /\ countSwords(slots) = 0 /\ gameState.gold = 100

-----------------------------------------------------------------------------
(* Moving and swapping *)

\* C19: moveSword(from, to) returns false and leaves every slot unchanged when
\* an index is outside 0..24, when the from slot is empty, or when the to slot is
\* occupied (from = to included); otherwise it returns true, the to slot holds
\* the sword that was at from, the from slot is empty and no other slot changes.
C19_MoveSwordContract ==
    last.op = "moveSword" =>
        LET from == last.a
            to == last.b
            before == pre.slots
            fails == \/ from \notin Indices
                     \/ to \notin Indices
                     \/ before[from].sword = NULL
                     \/ before[to].sword # NULL
        IN  IF fails
            THEN ~last.ok /\ slots = before
            ELSE /\ last.ok
                 /\ slots[to] = [position |-> to, sword |-> before[from].sword]
                 /\ slots[from] = [position |-> from, sword |-> NULL]
                 /\ \A i \in Indices \ {from, to} : slots[i] = before[i]

\* the sword of slot 0 has been moved to the empty slot 1
C19_Witness ==
    /\ last.op = "moveSword" /\ last.ok /\ last.a = 0 /\ last.b = 1
    /\ pre.slots[0].sword # NULL /\ pre.slots[1].sword = NULL
    /\ slots[1].sword = pre.slots[0].sword /\ slots[0].sword = NULL

\* C20: swapSwords(a, b) returns false and leaves every slot unchanged when
\* a = b, when an index is outside 0..24, or when one of the two slots is empty;
\* otherwise it returns true, each of the two slots holds the sword the other
\* held, and no other slot changes.
C20_SwapSwordsContract ==
    last.op = "swapSwords" =>
        LET a == last.a
            b == last.b
            before == pre.slots
            fails == \/ a = b
                     \/ a \notin Indices
                     \/ b \notin Indices
                     \/ before[a].sword = NULL
                     \/ before[b].sword = NULL
        IN  IF fails
            THEN ~last.ok /\ slots = before
            ELSE /\ last.ok
                 /\ slots[a] = [position |-> a, sword |-> before[b].sword]
                 /\ slots[b] = [position |-> b, sword |-> before[a].sword]
                 /\ \A i \in Indices \ {a, b} : slots[i] = before[i]

\* two different swords, in slots 0 and 1, have changed places
C20_Witness ==
    /\ last.op = "swapSwords" /\ last.ok /\ last.a = 0 /\ last.b = 1
    /\ pre.slots[0].sword # NULL /\ pre.slots[1].sword # NULL
    /\ pre.slots[0].sword # pre.slots[1].sword
    /\ slots[0].sword = pre.slots[1].sword /\ slots[1].sword = pre.slots[0].sword

-----------------------------------------------------------------------------
(* Sorting *)

\* C21: after sortByLevel the swords are in slots 0..count-1, in non-increasing
\* order of level, the swords of one level in the order of the slots they had
\* before, and every slot from count on is empty.
C21_SortPacksByLevel ==
    last.op = "sortByLevel" =>
        LET before == pre.slots
            count == Cardinality({i \in Indices : before[i].sword # NULL})
            OfLevel(seq, level) ==
                LET Has(sword) == sword.level = level IN SelectSeq(seq, Has)
        IN  /\ \A i \in Indices : (slots[i].sword # NULL) <=> (i < count)
            /\ \A i \in Indices : slots[i].position = i
            /\ \A i, j \in 0 .. count - 1 :
                   i < j => slots[i].sword.level >= slots[j].sword.level
            /\ \A level \in {before[i].sword.level :
                                i \in {k \in Indices : before[k].sword # NULL}} :
                   OfLevel(getAllSwords(slots), level) =
                       OfLevel(getAllSwords(before), level)

\* the full grid of alternating levels 1 and 2 has been sorted: the swords of
\* level 2 come first, in the order of their former slots 1, 3, ..., and the
\* swords of level 1 follow, in the order of their former slots 0, 2, ...
C21_Witness ==
    /\ last.op = "sortByLevel"
    /\ pre.slots = FullSlots
    /\ slots[0].sword = FullSlots[1].sword
    /\ slots[1].sword = FullSlots[3].sword
    /\ slots[12].sword = FullSlots[0].sword
    /\ slots[13].sword = FullSlots[2].sword

\* C22: moveSword, swapSwords and sortByLevel only relocate swords: every sword,
\* with its id, level, enhancement and goldValue, is held by as many slots after
\* the call as before, so countSwords() and getTotalValue() are unchanged.
C22_RelocationKeepsSwords ==
    last.op \in {"moveSword", "swapSwords", "sortByLevel"} =>
        LET before == pre.slots
            Holders(s, sword) == Cardinality({i \in Indices : s[i].sword = sword})
            held == {before[i].sword : i \in Indices} \cup {slots[i].sword : i \in Indices}
        IN  /\ \A sword \in held : Holders(slots, sword) = Holders(before, sword)
            /\ countSwords(slots) = countSwords(before)
            /\ getTotalValue(slots) = getTotalValue(before)

\* a sort has moved the two swords of the sparse grid, worth 10 and 30
C22_Witness ==
    /\ last.op = "sortByLevel"
    /\ pre.slots = SparseSlots
    /\ slots # pre.slots
    /\ countSwords(slots) = 2
    /\ getTotalValue(slots) = 40

-----------------------------------------------------------------------------
(* Gold values *)

\* C23: for every level >= 1 the gold value grows strictly with the
\* enhancement, the value of level + 1 without enhancement is twice the value
\* of the level without enhancement, calculateGoldValue(1, 0) = 10 and
\* calculateGoldValue(5, 3) = 400.
C23_ValueGrows ==
    last.op = "calculateGoldValue" =>
        LET level == last.a
            enhancement == last.b
        IN  /\ \A lower \in 0 .. enhancement - 1 :
                   calculateGoldValue(level, lower) < last.num
            /\ enhancement = 0 => calculateGoldValue(level + 1, 0) = 2 * last.num
            /\ (level = 1 /\ enhancement = 0) => last.num = 10
            /\ (level = 5 /\ enhancement = 3) => last.num = 400

\* calculateGoldValue(5, 3) has returned 400, more than the 320 of (5, 2)
C23_Witness ==
    /\ last.op = "calculateGoldValue" /\ last.a = 5 /\ last.b = 3
    /\ last.num = 400
    /\ calculateGoldValue(5, 2) = 320

-----------------------------------------------------------------------------
(* Writing through *)

-----------------------------------------------------------------------------
(* Statistics and quests *)

\* C25: every successful merge, by handleMerge or by a drop on the page, adds
\* exactly 1 to totalMerges, and no other call changes totalMerges.
C25_EveryMergeIsCounted ==
    (phase = "run" /\ last.op \notin {"none", "init"}) =>
        LET merged == \/ (last.op = "handleMerge" /\ last.ok)
                      \/ (last.op = "onDrop" /\ last.result = "merge")
        IN  gameState.stats.totalMerges =
                pre.gameState.stats.totalMerges + (IF merged THEN 1 ELSE 0)

\* C26: every successful merge, enhancement attempt, sale and purchase reports
\* its kind and the number of swords affected to the quests once: each active
\* quest of that kind that is not claimed has the number added to its progress
\* and is completed once the progress reaches the target; quests of another
\* kind and claimed quests do not change.
C26_EveryEventReachesQuests ==
    LET kind ==
            IF last.op \in {"sellSword", "sellAllSwords"} /\ last.ok THEN "sell"
            ELSE IF last.op = "handleMerge" /\ last.ok THEN "merge"
            ELSE IF last.op = "onDrop" /\ last.result = "merge" THEN "merge"
            ELSE IF last.op = "handleEnhancement" /\ last.ok THEN "enhance"
            ELSE IF last.op = "handlePurchase" /\ last.ok THEN "purchase"
            ELSE "none"
        count == IF last.op = "sellAllSwords" THEN countSwords(pre.slots) ELSE 1
    IN  (phase = "run" /\ kind # "none") =>
            /\ DOMAIN quests = DOMAIN pre.quests
            /\ \A k \in DOMAIN quests :
                   LET old == pre.quests[k]
                   IN  IF old.type = kind /\ ~old.claimed
                       THEN quests[k] =
                                [old EXCEPT !.current = old.current + count,
                                            !.completed =
                                                \/ old.completed
                                                \/ old.current + count >= old.target]
                       ELSE quests[k] = old

-----------------------------------------------------------------------------
(* Selling and buying *)

\* C27: sellSword(position) on an occupied slot returns true, adds exactly the
\* goldValue of the sword to the gold, empties the slot and leaves the other
\* slots as they were, so that gold plus getTotalValue() is what it was; on an
\* empty slot or a position out of range it returns false.
C27_SellSwordPaysItsValue ==
    last.op = "sellSword" =>
        LET position == last.a
            before == pre.slots
        IN  IF position \in Indices /\ before[position].sword # NULL
            THEN /\ last.ok
                 /\ gameState.gold = pre.gameState.gold + before[position].sword.goldValue
                 /\ slots[position] = [position |-> position, sword |-> NULL]
                 /\ \A i \in Indices \ {position} : slots[i] = before[i]
                 /\ gameState.gold + getTotalValue(slots) =
                        pre.gameState.gold + getTotalValue(before)
            ELSE ~last.ok

\* the enhanced sword of slot 1, worth 15, has been sold out of three swords
C27_Witness ==
    /\ last.op = "sellSword" /\ last.ok /\ last.a = 1
    /\ pre.slots[1].sword.enhancement = 1
    /\ gameState.gold = pre.gameState.gold + 15
    /\ countSwords(slots) = 2

\* C28: sellAllSwords on a grid that holds N >= 1 swords adds the sum of their
\* goldValues to the gold, returns that sum, leaves all 25 slots empty and adds
\* N to totalSales; on an empty grid it returns 0 and changes nothing.
C28_SellAllEmptiesTheGrid ==
    last.op = "sellAllSwords" =>
        LET count == countSwords(pre.slots)
            sum == getTotalValue(pre.slots)
        IN  IF count >= 1
            THEN /\ last.num = sum
                 /\ gameState.gold = pre.gameState.gold + sum
                 /\ \A i \in Indices : slots[i] = [position |-> i, sword |-> NULL]
                 /\ gameState.stats.totalSales = pre.gameState.stats.totalSales + count
            ELSE /\ last.num = 0
                 /\ slots = pre.slots
                 /\ gameState = pre.gameState
                 /\ quests = pre.quests

\* C29: handlePurchase succeeds only when the gold covers the cost (20 for a
\* basic sword, 100 for a lucky box) and the grid is not full; then exactly one
\* new sword of enhancement 0 (level 1 for basic, level 1..5 for a lucky box)
\* is in the lowest empty slot and the gold is lower by the cost; when it fails,
\* gold, grid and stats are unchanged.
C29_PurchaseContract ==
    last.op = "handlePurchase" =>
        LET before == pre.slots
            cost == IF last.kind = "basic" THEN 20 ELSE 100
            empties == {i \in Indices : before[i].sword = NULL}
        IN  IF last.ok
            THEN /\ last.kind \in {"basic", "luckybox"}
                 /\ pre.gameState.gold >= cost
                 /\ empties # {}
                 /\ gameState.gold = pre.gameState.gold - cost
                 /\ LET target == CHOOSE i \in empties : \A j \in empties : i <= j
                        sword == slots[target].sword
                    IN  /\ sword # NULL
                        /\ sword.enhancement = 0
                        /\ IF last.kind = "basic" THEN sword.level = 1
                                                  ELSE sword.level \in 1 .. 5
                        /\ \A i \in Indices : before[i].sword # NULL =>
                               before[i].sword.id # sword.id
                        /\ \A i \in Indices \ {target} : slots[i] = before[i]
            ELSE /\ \/ last.kind \notin {"basic", "luckybox"}
                    \/ pre.gameState.gold < cost
                    \/ empties = {}
                 /\ gameState = pre.gameState
                 /\ slots = before

\* a lucky box bought with the last 100 gold has put a sword of level 5 in
\* slot 0 of an empty grid
C29_Witness ==
    /\ last.op = "handlePurchase" /\ last.kind = "luckybox" /\ last.ok
    /\ pre.gameState.gold = 100 /\ gameState.gold = 0
    /\ countSwords(pre.slots) = 0
    /\ slots[0].sword.level = 5

-----------------------------------------------------------------------------
(* Claiming quest rewards *)

\* C30: handleQuestClaim pays the reward of a quest and marks it claimed only
\* when the quest is completed and not yet claimed; for an unknown, an
\* incomplete or a claimed quest it returns 0 and changes neither the quests
\* nor the gold; and a claimed quest stays claimed, so that over any sequence
\* of calls the reward of a quest is paid at most once.
C30_RewardPaidOnce ==
    /\ [](last.op = "handleQuestClaim" =>
            LET known == {k \in DOMAIN pre.quests : pre.quests[k].id = last.a}
                claimable == {k \in known :
                                 pre.quests[k].completed /\ ~pre.quests[k].claimed}
            IN  IF claimable # {}
                THEN \E k \in claimable :
                        /\ last.ok
                        /\ last.num = pre.quests[k].reward
                        /\ gameState.gold = pre.gameState.gold + pre.quests[k].reward
                        /\ quests = [pre.quests EXCEPT ![k].claimed = TRUE]
                ELSE /\ ~last.ok
                     /\ last.num = 0
                     /\ gameState.gold = pre.gameState.gold
                     /\ quests = pre.quests)
    /\ [][\A k \in DOMAIN quests :
             quests[k].claimed => (k \in DOMAIN quests' /\ quests'[k].claimed)]_vars

\* a quest whose reward was paid has been claimed again: 0 is returned and the
\* gold stays as it is
C30_Witness ==
    /\ last.op = "handleQuestClaim" /\ ~last.ok /\ last.num = 0
    /\ \E k \in DOMAIN pre.quests :
          /\ pre.quests[k].id = last.a
          /\ pre.quests[k].completed /\ pre.quests[k].claimed
    /\ gameState.gold = pre.gameState.gold
    /\ quests = pre.quests

-----------------------------------------------------------------------------
(* Achievements *)

\* C31: a checkAchievements call unlocks, and returns as newly unlocked, exactly
\* the achievements that were locked and whose stat is now at or above the
\* threshold; an achievement that was unlocked stays as it is, its recorded
\* progress included, and is not returned again.
C31_UnlockedOnceAndForAll ==
    last.op = "checkAchievements" =>
        /\ DOMAIN achievements = DOMAIN pre.achievements
        /\ \A k \in DOMAIN achievements :
               LET old == pre.achievements[k]
                   stat == StatFor(gameState.stats, old.type)
                   reported == \E i \in DOMAIN last.newlyUnlocked :
                                   last.newlyUnlocked[i] = old.id
               IN  IF old.unlocked
                   THEN achievements[k] = old /\ ~reported
                   ELSE /\ achievements[k] = [old EXCEPT !.current = stat,
                                                         !.unlocked = stat >= old.threshold]
                        /\ reported <=> stat >= old.threshold

\* first_merge, unlocked when totalMerges was 100, is checked again with
\* totalMerges 0: it stays unlocked with progress 100 and is not returned
C31_Witness ==
    /\ last.op = "checkAchievements"
    /\ gameState.stats.totalMerges = 0
    /\ pre.achievements[1].unlocked /\ pre.achievements[1].current = 100
    /\ achievements[1] = pre.achievements[1]
    /\ last.newlyUnlocked = <<>>

-----------------------------------------------------------------------------
(* Merging through the controller *)

\* C32: a handleMerge call that returns true took its two swords from two
\* different slots and leaves one sword fewer in the grid.
C32_MergeConsumesTwo ==
    (last.op = "handleMerge" /\ last.ok) =>
        /\ last.a # last.b
        /\ countSwords(slots) = countSwords(pre.slots) - 1

\* C33: a handleMerge call that returns true never adds to getTotalValue():
\* neither after the first removal, nor after the second, nor after the new
\* sword is added; the total ends where it began exactly when both source
\* swords had enhancement 0.
C33_MergeNeverAddsWorth ==
    (last.op = "handleMerge" /\ last.ok) =>
        LET sword1 == getSword(pre.slots, last.a)
            sword2 == getSword(pre.slots, last.b)
            before == getTotalValue(pre.slots)
            first == removeSword(pre.slots, last.a).slots
            second == removeSword(first, last.b).slots
        IN  /\ slots = addSword(second, last.out, last.b).slots
            /\ getTotalValue(first) <= before
            /\ getTotalValue(second) <= before
            /\ getTotalValue(slots) <= before
            /\ getTotalValue(slots) = before
                   <=> (sword1.enhancement = 0 /\ sword2.enhancement = 0)

-----------------------------------------------------------------------------
(* Gold *)

\* C34: the player's gold is never negative in a running game, and a controller
\* call leaves the player with less gold only when it is a handlePurchase that
\* succeeded, was made with at least the item's cost, and took exactly the cost.
C34_GoldNeverNegative ==
    /\ phase = "run" => gameState.gold >= 0
    /\ (phase = "run" /\ last.op \notin {"none", "init"}
            /\ gameState.gold < pre.gameState.gold) =>
           LET cost == IF last.kind = "basic" THEN 20 ELSE 100
           IN  /\ last.op = "handlePurchase" /\ last.ok
               /\ last.kind \in {"basic", "luckybox"}
               /\ pre.gameState.gold >= cost
               /\ gameState.gold = pre.gameState.gold - cost

\* a new game's 100 gold is spent to the last coin on a lucky box
C34_Witness ==
    /\ last.op = "handlePurchase" /\ last.ok /\ last.kind = "luckybox"
    /\ pre.gameState.gold = createNewGameState.gold
    /\ pre.gameState.stats = createNewGameState.stats
    /\ gameState.gold = 0

-----------------------------------------------------------------------------
(* Enhancing a sword that was never enhanced *)

\* C35: for a sword of enhancement 0 the destroy rate is 0 and the success and
\* maintain rates cover every roll, so enhance never returns DESTROY for it, and
\* a handleEnhancement on such a sword leaves that sword in its slot.
C35_UnenhancedNeverDestroyed ==
    /\ getEnhancementConfig(0).destroyRate = 0
    /\ getEnhancementConfig(0).successRate + getEnhancementConfig(0).maintainRate = 10
    /\ \A roll \in AllRolls : enhance(createSword(1, 1, 0), roll) # "DESTROY"
    /\ (/\ last.op = "handleEnhancement" /\ last.ok
        /\ getSword(pre.slots, last.a).enhancement = 0) =>
           /\ last.result # "DESTROY"
           /\ getSword(slots, last.a) # NULL
           /\ getSword(slots, last.a).id = getSword(pre.slots, last.a).id
           /\ countSwords(slots) = countSwords(pre.slots)

\* the highest roll on a sword of enhancement 0: the sword is kept as it is
C35_Witness ==
    /\ last.op = "handleEnhancement" /\ last.ok
    /\ getSword(pre.slots, last.a).enhancement = 0
    /\ last.result = "MAINTAIN"
    /\ getSword(slots, last.a) = getSword(pre.slots, last.a)

-----------------------------------------------------------------------------
(* The grid's positions *)

\* C36: the slot stored at index i of the grid has position i, whatever the
\* grid was built from.
C36_PositionIsIndex ==
    \A i \in DOMAIN slots : slots[i].position = i

-----------------------------------------------------------------------------
(* The highest level achieved *)

\* C37: in a running game stats.maxLevel is at least the level of every sword
\* in the grid, and no controller call lowers it.
C37_MaxLevelIsTheHighest ==
    phase = "run" =>
        /\ \A i \in DOMAIN slots :
               slots[i].sword # NULL => slots[i].sword.level <= gameState.stats.maxLevel
        /\ last.op \notin {"none", "init"} =>
               gameState.stats.maxLevel >= pre.gameState.stats.maxLevel

-----------------------------------------------------------------------------
(* Calls that fail *)

\* C38: a handleMerge, handleEnhancement, sellSword, handlePurchase or
\* handleQuestClaim call that reports failure leaves the gold, every slot, the
\* statistics and the quests as they were and writes nothing to storage.
C38_FailureChangesNothing ==
    (/\ last.op \in {"handleMerge", "handleEnhancement", "sellSword",
                     "handlePurchase", "handleQuestClaim"}
     /\ ~last.ok) =>
        /\ gameState = pre.gameState
        /\ slots = pre.slots
        /\ quests = pre.quests
        /\ storage = pre.storage

\* a lucky box is refused for lack of gold in a game that has not been saved
\* since it was loaded with other quests than it holds now
C38_Witness ==
    /\ last.op = "handlePurchase" /\ ~last.ok /\ last.kind = "luckybox"
    /\ gameState.gold < 100
    /\ ~isFull(slots)
    /\ storage = pre.storage
    /\ storage # Json(serialize(slots, gameState, quests, achievements))

-----------------------------------------------------------------------------
(* A write that fails *)

\* C39: when localStorage refuses the write, saveGameState returns false, the
\* stored text is what it was before the call and loads as it did, and the
\* grid, the gold and the statistics in memory are as they were; no other
\* controller call changes the stored text either.
C39_FailedWriteChangesNothing ==
    (quotaExceeded /\ last.op \notin {"none", "init"}) =>
        /\ storage = pre.storage
        /\ loadGame(storage) = loadGame(pre.storage)
        /\ last.op = "saveGameState" =>
               /\ ~last.ok
               /\ slots = pre.slots
               /\ gameState = pre.gameState

\* a refused save of a game that has changed since the stored text was written
C39_Witness ==
    /\ quotaExceeded
    /\ last.op = "saveGameState" /\ ~last.ok
    /\ storage.kind = "json"
    /\ storage = pre.storage
    /\ storage # Json(serialize(slots, gameState, quests, achievements))
    /\ slots = pre.slots /\ gameState = pre.gameState

====
